---- MODULE Spec2Model ----
(***************************************************************************)
(* Model of PyGUIde's dependency subsystem (src/PyGUIde.py):              *)
(*   - DependencyManager: import extraction, standard-library            *)
(*     classification, installed/missing package computation, package    *)
(*     installation, virtual-environment detection and creation;         *)
(*   - the PyGUIde handlers that drive it from the interface thread and   *)
(*     from worker threads.                                               *)
(* Python strings are sequences of code points, so that lower(), split(), *)
(* the identifier regex, substring tests and sorted() are computed.       *)
(***************************************************************************)
EXTENDS Integers, Sequences, FiniteSets, TLC

VARIABLES
    \* ---- pure-function harness (one DependencyManager call per behaviour)
    op,                   \* the method the caller invokes
    code_files,           \* argument of analyze_imports
    imports,              \* result of analyze_imports / argument of get_missing_packages
    builtin_module_names, \* sys.builtin_module_names of the host interpreter
    find_spec,            \* importlib.util.find_spec of the host interpreter, per name
    pip_list,             \* what `python -m pip list --format=json` does
    pip_install,          \* what `python -m pip install ...` does
    packages,             \* argument of install_packages
    output_callback,      \* TRUE when install_packages is given a sink
    returned,             \* "pending", "returned", or the exception that escaped
    installed,            \* value returned by get_installed_packages
    missing,              \* value returned by get_missing_packages
    success,              \* value returned by install_packages
    sink,                 \* the lines passed to output_callback, in order
    queried,              \* argument of is_standard_library / of the alias lookup
    stdlib,               \* value returned by is_standard_library
    install_as,           \* the name the alias lookup yields for queried
    classified,           \* the values is_standard_library returned, per name, in one refresh
    process,              \* install_packages step by step: the caller and its subprocess
    \* ---- environments
    os_name,              \* os.name: "nt" or "posix"
    fs,                   \* the filesystem: path -> "dir" or "file", for the paths that exist
    heap,                 \* the DependencyManager objects, by reference
    workers,              \* the threads that call into a DependencyManager
    calls,                \* number of environment calls made so far
    \* ---- the application (class PyGUIde)
    project_path,         \* self.project_path
    dependency_manager,   \* self.dependency_manager, a reference into heap
    after_queue,          \* callbacks scheduled with root.after(0, ...), in order
    invocations,          \* which thread ran which external command
    site_packages,        \* the packages installed under each interpreter
    deps_list,            \* rows of the dependencies panel
    install_all_btn,      \* N of "Install N Missing", 0 when disabled, -1 as built
    status,               \* the status bar message
    env_indicator         \* the environment indicator

libVars == <<op, code_files, imports, builtin_module_names, find_spec, pip_list,
             pip_install, packages, output_callback, returned, installed,
             missing, success, sink, queried, stdlib, install_as, classified, process>>

envVars == <<os_name, fs, heap, workers, calls>>

guiVars == <<project_path, dependency_manager, after_queue, invocations, site_packages,
             deps_list, install_all_btn, status, env_indicator>>

vars == <<libVars, envVars, guiVars>>

(***************************************************************************)
(* Bounds                                                                  *)
(***************************************************************************)
MaxFiles == 2       \* files handed to analyze_imports
MaxImports == 2     \* names handed to get_missing_packages
MaxPackages == 2    \* names handed to install_packages
MaxNodes == 1       \* import statements per file
MaxListed == 2      \* records printed by `pip list`
MaxLines == 2       \* output lines printed by `pip install`
MaxEntries == 2     \* directory entries present in a project before the program starts
MaxCalls == 2       \* environment calls made in one behaviour
MaxManagers == 2    \* DependencyManager objects made in one behaviour
MaxThreads == 2     \* worker threads started in one behaviour
MaxWorkers == 1     \* worker threads started in one behaviour of ThreadsSpec, SwitchSpec

(***************************************************************************)
(* Strings                                                                 *)
(***************************************************************************)
None == <<>>        \* Python None (falsy, like the empty string)

str ==
    [ pil |-> <<112, 105, 108>>,
      yaml |-> <<121, 97, 109, 108>>,
      cv2 |-> <<99, 118, 50>>,
      skimage |-> <<115, 107, 105, 109, 97, 103, 101>>,
      sklearn |-> <<115, 107, 108, 101, 97, 114, 110>>,
      bs4 |-> <<98, 115, 52>>,
      pillow |-> <<112, 105, 108, 108, 111, 119>>,
      pyyaml |-> <<112, 121, 121, 97, 109, 108>>,
      opencv_python |-> <<111, 112, 101, 110, 99, 118, 45, 112, 121, 116, 104, 111, 110>>,
      scikit_image |-> <<115, 99, 105, 107, 105, 116, 45, 105, 109, 97, 103, 101>>,
      scikit_learn |-> <<115, 99, 105, 107, 105, 116, 45, 108, 101, 97, 114, 110>>,
      beautifulsoup4 |-> <<98, 101, 97, 117, 116, 105, 102, 117, 108, 115, 111, 117, 112, 52>>,
      PIL |-> <<80, 73, 76>>,
      PyYAML |-> <<80, 121, 89, 65, 77, 76>>,
      numpy |-> <<110, 117, 109, 112, 121>>,
      Numpy |-> <<78, 117, 109, 112, 121>>,
      os |-> <<111, 115>>,
      sys |-> <<115, 121, 115>>,
      a |-> <<97>>,
      c |-> <<99>>,
      m |-> <<109>>,
      z |-> <<122>>,
      a_b |-> <<97, 46, 98>>,
      a_b_c |-> <<97, 46, 98, 46, 99>>,
      site_packages |-> <<115, 105, 116, 101, 45, 112, 97, 99, 107, 97, 103, 101, 115>>,
      dist_packages |-> <<100, 105, 115, 116, 45, 112, 97, 99, 107, 97, 103, 101, 115>>,
      built_in |-> <<98, 117, 105, 108, 116, 45, 105, 110>>,
      pip |-> <<112, 105, 112>>,
      matplotlib |-> <<109, 97, 116, 112, 108, 111, 116, 108, 105, 98>>,
      mpl_toolkits |-> <<109, 112, 108, 95, 116, 111, 111, 108, 107, 105, 116, 115>>,
      mpl_toolkits_mplot3d |-> <<109, 112, 108, 95, 116, 111, 111, 108, 107, 105, 116, 115,
                                 46, 109, 112, 108, 111, 116, 51, 100>>,
      Axes3D |-> <<65, 120, 101, 115, 51, 68>>,
      lib_dir |-> <<47, 108, 105, 98, 47>>,   \* "/lib/"
      mod_py |-> <<47, 109, 46, 112, 121>> ]   \* "/m.py"

\* str.lower() on ASCII
lower(s) == [i \in DOMAIN s |-> IF s[i] \in 65..90 THEN s[i] + 32 ELSE s[i]]

\* s.split('.')[0]
RECURSIVE split_dot_0(_)
split_dot_0(s) ==
    IF s = <<>> \/ Head(s) = 46 THEN <<>>
    ELSE <<Head(s)>> \o split_dot_0(Tail(s))

\* needle in hay (substring test)
str_in(needle, hay) ==
    \E i \in 1..(Len(hay) - Len(needle) + 1) :
        SubSeq(hay, i, i + Len(needle) - 1) = needle

\* a < b for Python str (code-point lexicographic order)
RECURSIVE str_lt(_, _)
str_lt(a, b) ==
    IF b = <<>> THEN FALSE
    ELSE IF a = <<>> THEN TRUE
    ELSE IF Head(a) # Head(b) THEN Head(a) < Head(b)
    ELSE str_lt(Tail(a), Tail(b))

\* sorted(list(S)) for a set of str
RECURSIVE sorted(_)
sorted(S) ==
    IF S = {} THEN <<>>
    ELSE LET least == CHOOSE x \in S : \A y \in S \ {x} : str_lt(x, y)
         IN <<least>> \o sorted(S \ {least})

Range(f) == {f[i] : i \in DOMAIN f}

SeqsUpTo(S, n) == UNION {[1..k -> S] : k \in 0..n}

SubsetsUpTo(S, n) == {T \in SUBSET S : Cardinality(T) <= n}

\* dict.get(key, default)
dict_get(d, key, default) == IF key \in DOMAIN d THEN d[key] ELSE default

(***************************************************************************)
(* Exceptions and subprocesses                                             *)
(***************************************************************************)
NoExc == "None"

\* the classes an `except <class>` clause catches
Subclasses(class) ==
    IF class = "Exception"
        THEN {"Exception", "OSError", "FileNotFoundError", "CalledProcessError",
              "JSONDecodeError", "ValueError", "TypeError", "KeyError",
              "AttributeError", "ImportError", "ModuleNotFoundError",
              "SyntaxError", "UnicodeDecodeError"}
    ELSE IF class = "ImportError" THEN {"ImportError", "ModuleNotFoundError"}
    ELSE IF class = "ValueError" THEN {"ValueError", "JSONDecodeError", "UnicodeDecodeError"}
    ELSE IF class = "OSError" THEN {"OSError", "FileNotFoundError"}
    ELSE {class}

except_catches(classes, exc) == \E class \in classes : exc \in Subclasses(class)

\* subprocess.run(cmd, capture_output=True, check=...) on a process `proc`
\* = [start |-> the executable could be started, returncode, stdout]
subprocess_run(proc, check) ==
    IF ~proc.start THEN [exc |-> "FileNotFoundError", stdout |-> proc.stdout]
    ELSE IF check /\ proc.returncode # 0
        THEN [exc |-> "CalledProcessError", stdout |-> proc.stdout]
    ELSE [exc |-> NoExc, stdout |-> proc.stdout]

(***************************************************************************)
(* DependencyManager.get_installed_packages                                *)
(***************************************************************************)
\* {pkg['name'].lower(): pkg['version'] for pkg in packages}
RECURSIVE dict_comprehension(_, _)
dict_comprehension(items, acc) ==
    IF items = <<>> THEN [exc |-> NoExc, value |-> acc]
    ELSE LET pkg == Head(items) IN
         IF pkg.shape = "not_dict" THEN [exc |-> "TypeError", value |-> acc]
         ELSE IF pkg.shape = "no_name" THEN [exc |-> "KeyError", value |-> acc]
         ELSE IF pkg.shape = "name_not_str" THEN [exc |-> "AttributeError", value |-> acc]
         ELSE IF pkg.shape = "no_version" THEN [exc |-> "KeyError", value |-> acc]
         ELSE dict_comprehension(Tail(items),
                 [k \in DOMAIN acc \cup {lower(pkg.name)} |->
                     IF k = lower(pkg.name) THEN pkg.version ELSE acc[k]])

EmptyDict == [k \in {} |-> "0"]

\* json.loads(result.stdout) followed by the dict comprehension
json_loads_packages(stdout) ==
    IF stdout.json = "invalid" THEN [exc |-> "JSONDecodeError", value |-> EmptyDict]
    ELSE IF stdout.json = "scalar" THEN [exc |-> "TypeError", value |-> EmptyDict]
    ELSE dict_comprehension(stdout.items, EmptyDict)

get_installed_packages_try(proc) ==
    LET result == subprocess_run(proc, TRUE) IN
    IF result.exc # NoExc THEN [exc |-> result.exc, value |-> EmptyDict]
    ELSE json_loads_packages(result.stdout)

\* variant: only subprocess failures are handled
get_installed_packages_caught_subprocess == {"CalledProcessError", "OSError"}

get_installed_packages_caught == {"Exception"}

get_installed_packages(proc) ==
    LET body == get_installed_packages_try(proc) IN
    IF body.exc = NoExc THEN body
    ELSE IF except_catches(get_installed_packages_caught, body.exc)
        THEN [exc |-> NoExc, value |-> EmptyDict]
    ELSE [exc |-> body.exc, value |-> EmptyDict]

(***************************************************************************)
(* DependencyManager.analyze_imports                                       *)
(***************************************************************************)
\* variant: the dotted path is added whole
node_imports_dotted(node) ==
    IF node.type = "Import" THEN {node.names[i] : i \in DOMAIN node.names}
    ELSE IF node.type = "ImportFrom" THEN
        IF node.module # None THEN {node.module} ELSE {}
    ELSE {}

\* the names one ast node adds to `imports`
node_imports(node) ==
    IF node.type = "Import" THEN {split_dot_0(node.names[i]) : i \in DOMAIN node.names}
    ELSE IF node.type = "ImportFrom" THEN
        IF node.module # None THEN {split_dot_0(node.module)} ELSE {}
    ELSE {}

\* the names the walk over one file's tree adds to `imports`
file_imports(file) ==
    IF ~file.readable \/ ~file.parses THEN {}
    ELSE UNION {node_imports(file.tree[i]) : i \in DOMAIN file.tree}

\* the try body of one iteration of the `for file_path in code_files` loop:
\* open()/read() and ast.parse() raise before any name is added
analyze_imports_try(file) ==
    IF ~file.readable THEN [exc |-> file.error, names |-> {}]
    ELSE IF ~file.parses THEN [exc |-> file.error, names |-> {}]
    ELSE [exc |-> NoExc, names |-> file_imports(file)]

\* variant: only a syntax error is handled
analyze_imports_caught_syntax == {"SyntaxError"}

\* `except Exception: continue`
analyze_imports_caught == {"Exception"}

\* the loop from the given file on, `acc` being the names collected so far
RECURSIVE analyze_imports_loop(_, _)
analyze_imports_loop(files, acc) ==
    IF files = <<>> THEN [exc |-> NoExc, value |-> acc]
    ELSE LET body == analyze_imports_try(Head(files)) IN
         IF body.exc = NoExc
             THEN analyze_imports_loop(Tail(files), acc \cup body.names)
         ELSE IF except_catches(analyze_imports_caught, body.exc)
             THEN analyze_imports_loop(Tail(files), acc)
         ELSE [exc |-> body.exc, value |-> acc]

analyze_imports(files) == analyze_imports_loop(files, {}).value

(***************************************************************************)
(* DependencyManager.is_standard_library                                   *)
(***************************************************************************)
IsAlpha(ch) == ch \in 65..90 \/ ch \in 97..122
IsWord(ch) == IsAlpha(ch) \/ ch \in 48..57 \/ ch = 95

\* re.match(r'^[a-zA-Z_][a-zA-Z0-9_]*$', module_name); `$` also matches
\* just before a final newline
re_match_identifier(name) ==
    /\ Len(name) >= 1
    /\ IsAlpha(name[1]) \/ name[1] = 95
    /\ \/ \A i \in 2..Len(name) : IsWord(name[i])
       \/ /\ Len(name) >= 2
          /\ name[Len(name)] = 10
          /\ \A i \in 2..(Len(name) - 1) : IsWord(name[i])

NotFound == [raises |-> NoExc, found |-> FALSE, origin |-> None]

importlib_find_spec(finder, name) ==
    IF name \in DOMAIN finder THEN finder[name] ELSE NotFound

is_standard_library_caught == {"ValueError", "ModuleNotFoundError", "ImportError"}

\* variant: only 'site-packages' marks a third-party origin
is_standard_library_call_site_only(builtins, finder, module_name) ==
    IF ~re_match_identifier(module_name) THEN [exc |-> NoExc, value |-> TRUE]
    ELSE IF module_name \in builtins THEN [exc |-> NoExc, value |-> TRUE]
    ELSE LET spec == importlib_find_spec(finder, module_name) IN
         IF spec.raises # NoExc THEN
             IF except_catches(is_standard_library_caught, spec.raises)
                 THEN [exc |-> NoExc, value |-> FALSE]
             ELSE [exc |-> spec.raises, value |-> FALSE]
         ELSE IF ~spec.found THEN [exc |-> NoExc, value |-> FALSE]
         ELSE IF spec.origin = None \/ spec.origin = str.built_in
             THEN [exc |-> NoExc, value |-> TRUE]
         ELSE [exc |-> NoExc, value |-> ~str_in(str.site_packages, spec.origin)]

\* returns [exc, value]; exc # NoExc when find_spec raises past the handler
is_standard_library_call(builtins, finder, module_name) ==
    IF ~re_match_identifier(module_name) THEN [exc |-> NoExc, value |-> TRUE]
    ELSE IF module_name \in builtins THEN [exc |-> NoExc, value |-> TRUE]
    ELSE LET spec == importlib_find_spec(finder, module_name) IN
         IF spec.raises # NoExc THEN
             IF except_catches(is_standard_library_caught, spec.raises)
                 THEN [exc |-> NoExc, value |-> FALSE]
             ELSE [exc |-> spec.raises, value |-> FALSE]
         ELSE IF ~spec.found THEN [exc |-> NoExc, value |-> FALSE]
         ELSE IF spec.origin = None \/ spec.origin = str.built_in
             THEN [exc |-> NoExc, value |-> TRUE]
         ELSE [exc |-> NoExc,
               value |-> ~str_in(str.site_packages, spec.origin)
                         /\ ~str_in(str.dist_packages, spec.origin)]

is_standard_library(builtins, finder, module_name) ==
    is_standard_library_call(builtins, finder, module_name).value

(***************************************************************************)
(* DependencyManager.get_missing_packages                                  *)
(***************************************************************************)
\* variant: a published package name is itself an import name of the table
import_to_package_map_chained ==
    [k \in {str.pil, str.yaml, str.cv2, str.skimage, str.sklearn, str.bs4, str.pillow} |->
        IF k = str.pil THEN str.pillow
        ELSE IF k = str.yaml THEN str.pyyaml
        ELSE IF k = str.cv2 THEN str.opencv_python
        ELSE IF k = str.skimage THEN str.scikit_image
        ELSE IF k = str.sklearn THEN str.scikit_learn
        ELSE IF k = str.bs4 THEN str.beautifulsoup4
        ELSE str.PIL]

import_to_package_map ==
    [k \in {str.pil, str.yaml, str.cv2, str.skimage, str.sklearn, str.bs4} |->
        IF k = str.pil THEN str.pillow
        ELSE IF k = str.yaml THEN str.pyyaml
        ELSE IF k = str.cv2 THEN str.opencv_python
        ELSE IF k = str.skimage THEN str.scikit_image
        ELSE IF k = str.sklearn THEN str.scikit_learn
        ELSE str.beautifulsoup4]

\* package_name = import_to_package_map.get(imp_lower, imp_lower)
package_name(imp) == dict_get(import_to_package_map, lower(imp), lower(imp))

\* variant: the alias table is never consulted for the reported name
install_name_unmapped(imp) == imp

\* install_name = import_to_package_map.get(imp_lower, imp)
install_name(imp) == dict_get(import_to_package_map, lower(imp), imp)

\* variant: the alias table is looked up with the import name as written
missing_of_case_sensitive(imp, builtins, finder, installed_pkgs) ==
    IF is_standard_library(builtins, finder, imp) THEN {}
    ELSE IF dict_get(import_to_package_map, imp, lower(imp)) \notin DOMAIN installed_pkgs
        THEN {dict_get(import_to_package_map, imp, imp)}
    ELSE {}

\* the body of the `for imp in imports` loop: the names it adds to `missing`
missing_of(imp, builtins, finder, installed_pkgs) ==
    IF is_standard_library(builtins, finder, imp) THEN {}
    ELSE IF package_name(imp) \notin DOMAIN installed_pkgs THEN {install_name(imp)}
    ELSE {}

\* variant: the classification of the imports is not consulted
get_missing_packages_unclassified(imps, builtins, finder, proc) ==
    LET installed_pkgs == get_installed_packages(proc).value IN
    sorted({install_name(imp) : imp \in {i \in imps : package_name(i) \notin DOMAIN installed_pkgs}})

get_missing_packages(imps, builtins, finder, proc) ==
    LET installed_pkgs == get_installed_packages(proc).value IN
    sorted(UNION {missing_of(imp, builtins, finder, installed_pkgs) : imp \in imps})

\* the exception that leaves get_missing_packages: is_standard_library is
\* called outside any try, so what it lets through ends the loop
get_missing_packages_exc(imps, builtins, finder) ==
    LET raising == {imp \in imps :
                       is_standard_library_call(builtins, finder, imp).exc # NoExc} IN
    IF raising = {} THEN NoExc
    ELSE is_standard_library_call(builtins, finder, CHOOSE imp \in raising : TRUE).exc

(***************************************************************************)
(* DependencyManager.install_packages                                      *)
(***************************************************************************)
\* the try body: Popen + readline loop + wait with a sink, subprocess.run
\* with check=True without one
install_packages_try(proc, callback) ==
    IF callback THEN
        IF ~proc.start THEN [exc |-> "FileNotFoundError", value |-> FALSE, sink |-> <<>>]
        ELSE [exc |-> NoExc, value |-> (proc.returncode = 0), sink |-> proc.stdout]
    ELSE
        LET result == subprocess_run(proc, TRUE) IN
        [exc |-> result.exc, value |-> TRUE, sink |-> <<>>]

install_packages_caught == {"CalledProcessError"}

\* variant: an empty list is handed to pip like any other
not_packages_never(pkgs) == FALSE

\* `if not packages`
not_packages(pkgs) == pkgs = <<>>

\* variant: the loop ends as soon as the subprocess has exited
readline_eof_on_exit(p) == ~p.running

\* process.stdout.readline() returns '': every line written has been read and
\* the subprocess has closed its end of the pipe
readline_eof(p) == ~p.running /\ p.read = p.written

install_packages(pkgs, callback, proc) ==
    IF not_packages(pkgs) THEN [exc |-> NoExc, value |-> TRUE, sink |-> <<>>]
    ELSE LET body == install_packages_try(proc, callback) IN
         IF body.exc = NoExc THEN body
         ELSE IF except_catches(install_packages_caught, body.exc) THEN
             [exc |-> NoExc, value |-> FALSE,
              sink |-> IF callback THEN body.sink \o <<"Error">> ELSE body.sink]
         ELSE body

(***************************************************************************)
(* Filesystem and environments                                             *)
(* A path is the sequence of its components; None is the empty path.       *)
(***************************************************************************)
sys_executable == <<"usr", "bin", "python3">>

\* os.path.join(a, b...) for relative components
os_path_join(a, rest) == a \o rest

os_path_exists(files, path) == path \in DOMAIN files
os_path_isdir(files, path) == path \in DOMAIN files /\ files[path] = "dir"

\* the interpreter inside a virtual environment, per platform
venv_python_exe(platform, venv_dir) ==
    IF platform = "nt" THEN os_path_join(venv_dir, <<"Scripts", "python.exe">>)
    ELSE os_path_join(venv_dir, <<"bin", "python">>)

venv_candidates == <<"venv", "env", ".venv", ".env">>

\* variant: a candidate directory is accepted without looking for its interpreter
is_valid_venv_dir_only(platform, files, potential_venv) ==
    os_path_isdir(files, potential_venv)

\* the two tests of the detect_venv loop body
is_valid_venv(platform, files, potential_venv) ==
    /\ os_path_isdir(files, potential_venv)
    /\ os_path_exists(files, venv_python_exe(platform, potential_venv))

\* the `for candidate in venv_candidates` loop, from candidate i on
RECURSIVE detect_venv_loop(_, _, _, _, _)
detect_venv_loop(platform, files, self, candidates, i) ==
    IF i > Len(candidates) THEN
        [self |-> [self EXCEPT !.venv_path = None, !.python_executable = sys_executable],
         ret |-> FALSE]
    ELSE LET potential_venv == os_path_join(self.project_path, <<candidates[i]>>) IN
         IF is_valid_venv(platform, files, potential_venv) THEN
             [self |-> [self EXCEPT !.venv_path = potential_venv,
                                    !.python_executable = venv_python_exe(platform, potential_venv)],
              ret |-> TRUE]
         ELSE detect_venv_loop(platform, files, self, candidates, i + 1)

\* DependencyManager.detect_venv: the object afterwards and the return value
detect_venv(platform, files, self) ==
    IF self.project_path = None THEN [self |-> self, ret |-> FALSE]
    ELSE detect_venv_loop(platform, files, self, venv_candidates, 1)

\* DependencyManager.__init__
DependencyManager(platform, files, folder_path) ==
    LET self == [project_path |-> folder_path, venv_path |-> None,
                 python_executable |-> sys_executable] IN
    IF folder_path # None THEN detect_venv(platform, files, self).self ELSE self

\* variant: create_venv does not look at what is already there
create_venv_precondition_no_exists(files, self, venv_name) ==
    IF self.project_path = None THEN "No project path set"
    ELSE "ok"

\* the two precondition tests at the head of create_venv
create_venv_precondition(files, self, venv_name) ==
    IF self.project_path = None THEN "No project path set"
    ELSE IF os_path_exists(files, os_path_join(self.project_path, <<venv_name>>))
        THEN "already exists"
    ELSE "ok"

(***************************************************************************)
(* Threads calling detect_venv and create_venv                             *)
(* create_venv is not atomic: precondition tests, venv.create (make the    *)
(* directory, then populate it, which may fail), then two assignments.     *)
(***************************************************************************)
Idle == [pc |-> "idle", method |-> "none", dm |-> 0, venv_name |-> "", venv_path |-> None,
         ret |-> FALSE, exc |-> NoExc,
         packages |-> <<>>, exe |-> None, returncode |-> 0, child |-> "none",
         \* kept for the statement of properties only: the interpreter of the
         \* environment that was active when the handler started the thread
         active_exe |-> None]

SetWorker(w, rec) == workers' = [workers EXCEPT ![w] = rec]

\* a whole call of detect_venv on object d
DetectVenvCall(w, d) ==
    /\ workers[w].pc \in {"idle", "returned", "raised"}
    /\ calls < MaxCalls
    /\ calls' = calls + 1
    /\ LET r == detect_venv(os_name, fs, heap[d]) IN
         /\ heap' = [heap EXCEPT ![d] = r.self]
         /\ SetWorker(w, [workers[w] EXCEPT !.pc = "returned", !.method = "detect_venv",
                                           !.dm = d, !.ret = r.ret, !.exc = NoExc,
                                           !.venv_name = "", !.venv_path = None])
    /\ UNCHANGED <<os_name, fs>>

\* entry of create_venv(venv_name) on object d
CreateVenvCall(w, d, venv_name) ==
    /\ workers[w].pc \in {"idle", "returned", "raised"}
    /\ calls < MaxCalls
    /\ calls' = calls + 1
    /\ SetWorker(w, [workers[w] EXCEPT !.pc = "check", !.method = "create_venv",
                                      !.dm = d, !.venv_name = venv_name,
                                      !.venv_path = None, !.ret = FALSE, !.exc = NoExc])
    /\ UNCHANGED <<os_name, fs, heap>>

\* lines 115-120: the precondition tests
CreateVenvCheck(w) ==
    /\ workers[w].pc = "check"
    /\ LET self == heap[workers[w].dm]
           verdict == create_venv_precondition(fs, self, workers[w].venv_name) IN
         IF verdict = "ok"
             THEN SetWorker(w, [workers[w] EXCEPT
                      !.pc = "mkdir",
                      !.venv_path = os_path_join(self.project_path, <<workers[w].venv_name>>)])
         ELSE SetWorker(w, [workers[w] EXCEPT !.pc = "raised", !.exc = verdict])
    /\ UNCHANGED <<os_name, fs, heap, calls>>

\* line 123, venv.create: the environment directory is made if it is not there
CreateVenvMkdir(w) ==
    /\ workers[w].pc = "mkdir"
    /\ LET path == workers[w].venv_path IN
         IF os_path_exists(fs, path) /\ ~os_path_isdir(fs, path)
             THEN /\ SetWorker(w, [workers[w] EXCEPT !.pc = "raised", !.exc = "FileExistsError"])
                  /\ fs' = fs
         ELSE /\ SetWorker(w, [workers[w] EXCEPT !.pc = "populate"])
              /\ fs' = [q \in DOMAIN fs \cup {path} |-> IF q = path THEN "dir" ELSE fs[q]]
    /\ UNCHANGED <<os_name, heap, calls>>

\* line 123, venv.create: the interpreter and pip are put in place, or it fails
CreateVenvPopulate(w) ==
    /\ workers[w].pc = "populate"
    /\ \/ LET exe == venv_python_exe(os_name, workers[w].venv_path) IN
            /\ fs' = [q \in DOMAIN fs \cup {exe} |-> IF q = exe THEN "file" ELSE fs[q]]
            /\ SetWorker(w, [workers[w] EXCEPT !.pc = "set_venv_path"])
       \/ /\ fs' = fs
          /\ SetWorker(w, [workers[w] EXCEPT !.pc = "raised", !.exc = "CalledProcessError"])
    /\ UNCHANGED <<os_name, heap, calls>>

\* line 125: self.venv_path = venv_path
CreateVenvSetPath(w) ==
    /\ workers[w].pc = "set_venv_path"
    /\ heap' = [heap EXCEPT ![workers[w].dm].venv_path = workers[w].venv_path]
    /\ SetWorker(w, [workers[w] EXCEPT !.pc = "set_python_executable"])
    /\ UNCHANGED <<os_name, fs, calls>>

\* lines 126-131: self.python_executable = ...; return True
CreateVenvSetExecutable(w) ==
    /\ workers[w].pc = "set_python_executable"
    /\ heap' = [heap EXCEPT ![workers[w].dm].python_executable =
                                venv_python_exe(os_name, workers[w].venv_path)]
    /\ SetWorker(w, [workers[w] EXCEPT !.pc = "returned", !.ret = TRUE])
    /\ UNCHANGED <<os_name, fs, calls>>

CreateVenvStep(w) ==
    \/ CreateVenvCheck(w)
    \/ CreateVenvMkdir(w)
    \/ CreateVenvPopulate(w)
    \/ CreateVenvSetPath(w)
    \/ CreateVenvSetExecutable(w)

\* the application is not running
GuiIdle ==
    /\ project_path = None
    /\ dependency_manager = 0
    /\ after_queue = <<>>
    /\ invocations = {}
    /\ site_packages = [e \in {} |-> {}]
    /\ deps_list = <<>>
    /\ install_all_btn = -1
    /\ status = "Ready"
    /\ env_indicator = "Global Python"

\* no environment activity
EnvIdle ==
    /\ os_name = "posix"
    /\ fs = [q \in {} |-> "dir"]
    /\ heap = <<>>
    /\ workers = [w \in {} |-> Idle]
    /\ calls = 0

(***************************************************************************)
(* Inputs of the DependencyManager calls                                   *)
(***************************************************************************)
\* ast nodes: alias names of `import`, module and level of `from ... import`
AstNode(type, names, module, level) ==
    [type |-> type, names |-> names, module |-> module, level |-> level]

AstNodes ==
    { AstNode("Import", <<str.a_b_c>>, None, 0),            \* import a.b.c
      AstNode("Import", <<str.os, str.numpy>>, None, 0),    \* import os, numpy
      AstNode("ImportFrom", <<str.c>>, str.a_b, 0),         \* from a.b import c
      AstNode("ImportFrom", <<str.z>>, None, 1),            \* from . import z
      AstNode("ImportFrom", <<str.z>>, str.m, 1),           \* from .m import z
      AstNode("Other", <<>>, None, 0) }                     \* any other statement

SourceFile(readable, parses, error, tree) ==
    [readable |-> readable, parses |-> parses, error |-> error, tree |-> tree]

SourceFiles ==
    {SourceFile(TRUE, TRUE, NoExc, t) : t \in SeqsUpTo(AstNodes, MaxNodes)}
    \cup {SourceFile(FALSE, FALSE, "FileNotFoundError", <<>>),  \* open() fails
          SourceFile(TRUE, FALSE, "SyntaxError", <<>>)}         \* ast.parse() fails

ImportNames == {str.cv2, str.PIL, str.yaml, str.numpy, str.Numpy, str.os, str.sys}

HostBuiltins == {str.sys}

\* the names handed to is_standard_library and to the alias lookup
ModuleNames ==
    ImportNames
    \cup DOMAIN import_to_package_map
    \cup Range(import_to_package_map)
    \cup {str.PyYAML, str.a_b}

\* importlib.util.find_spec: the exceptions it documents, an exception of
\* another class out of a finder on sys.meta_path, not found (None), and
\* specs with the origins the classifier tells apart
FindSpecOutcomes ==
    { [raises |-> "ValueError", found |-> FALSE, origin |-> None],
      [raises |-> "AttributeError", found |-> FALSE, origin |-> None],
      [raises |-> "ModuleNotFoundError", found |-> FALSE, origin |-> None],
      NotFound,
      [raises |-> NoExc, found |-> TRUE, origin |-> None],
      [raises |-> NoExc, found |-> TRUE, origin |-> str.built_in],
      [raises |-> NoExc, found |-> TRUE, origin |-> str.lib_dir \o str.mod_py],
      [raises |-> NoExc, found |-> TRUE,
       origin |-> str.lib_dir \o str.site_packages \o str.mod_py],
      [raises |-> NoExc, found |-> TRUE,
       origin |-> str.lib_dir \o str.dist_packages \o str.mod_py] }

\* the outcomes that matter to the missing-package computation: one of each
\* way a name ends up skipped, kept or raising
FindSpecForMissing ==
    { [raises |-> "ModuleNotFoundError", found |-> FALSE, origin |-> None],
      [raises |-> "AttributeError", found |-> FALSE, origin |-> None],
      NotFound,
      [raises |-> NoExc, found |-> TRUE, origin |-> str.lib_dir \o str.mod_py],
      [raises |-> NoExc, found |-> TRUE,
       origin |-> str.lib_dir \o str.site_packages \o str.mod_py] }

PkgRecord(shape, name, version) == [shape |-> shape, name |-> name, version |-> version]

GoodRecords ==
    { PkgRecord("record", str.numpy, "1.0"),
      PkgRecord("record", str.PyYAML, "6.0"),
      PkgRecord("record", str.opencv_python, "4.0") }

BadRecords ==
    { PkgRecord("not_dict", None, "0"),
      PkgRecord("no_name", None, "1.0"),
      PkgRecord("name_not_str", None, "1.0"),
      PkgRecord("no_version", str.numpy, "0") }

Proc(start, returncode, stdout) ==
    [start |-> start, returncode |-> returncode, stdout |-> stdout]

JsonList(items) == [json |-> "list", items |-> items]

\* every way `pip list` can go
PipListOutcomes ==
    {Proc(st, rc, JsonList(items)) :
        st \in BOOLEAN, rc \in {0, 1},
        items \in SeqsUpTo(GoodRecords \cup BadRecords, MaxListed)}
    \cup {Proc(TRUE, 0, [json |-> j, items |-> <<>>]) : j \in {"invalid", "scalar"}}

\* the outcomes that matter to the missing-package computation: pip fails,
\* or lists some of the well-formed records, each once
PipListForMissing ==
    {Proc(TRUE, 0, JsonList(items)) :
        items \in {q \in SeqsUpTo(GoodRecords, MaxListed) :
                      \A i, j \in DOMAIN q : i < j => str_lt(q[i].name, q[j].name)}}
    \cup {Proc(FALSE, 0, JsonList(<<>>))}

PipInstallOutcomes ==
    {Proc(st, rc, lines) :
        st \in BOOLEAN, rc \in {0, 1}, lines \in {SubSeq(<<"l1", "l2", "l3", "l4">>, 1, k) : k \in 0..MaxLines}}

NoProc == Proc(TRUE, 0, JsonList(<<>>))

\* install_packages not entered
NoProcess ==
    [pc |-> "none", spawned |-> 0, running |-> FALSE, written |-> 0, read |-> 0, line |-> None]
NoFinder == [n \in {} |-> NotFound]

(***************************************************************************)
(* Specification of single DependencyManager calls                         *)
(***************************************************************************)
LibIdle ==
    /\ code_files = <<>>
    /\ imports = {}
    /\ builtin_module_names = HostBuiltins
    /\ find_spec = NoFinder
    /\ pip_list = NoProc
    /\ pip_install = NoProc
    /\ packages = <<>>
    /\ output_callback = FALSE
    /\ returned = "pending"
    /\ installed = EmptyDict
    /\ missing = <<>>
    /\ success = FALSE
    /\ sink = <<>>
    /\ queried = None
    /\ stdlib = FALSE
    /\ install_as = None
    /\ classified = << >>
    /\ process = NoProcess

LibInit ==
    /\ EnvIdle /\ GuiIdle
    /\ returned = "pending"
    /\ installed = EmptyDict
    /\ missing = <<>>
    /\ success = FALSE
    /\ sink = <<>>
    /\ stdlib = FALSE
    /\ install_as = None
    /\ classified = << >>
    /\ process = NoProcess
    /\ builtin_module_names = HostBuiltins
    /\ \/ /\ op = "analyze_imports"
          /\ code_files \in SeqsUpTo(SourceFiles, MaxFiles)
          /\ imports = {}
          /\ find_spec = NoFinder /\ pip_list = NoProc /\ pip_install = NoProc
          /\ packages = <<>> /\ output_callback = FALSE /\ queried = None
       \/ /\ op = "get_installed_packages"
          /\ pip_list \in PipListOutcomes
          /\ code_files = <<>> /\ imports = {}
          /\ find_spec = NoFinder /\ pip_install = NoProc
          /\ packages = <<>> /\ output_callback = FALSE /\ queried = None
       \/ /\ op = "get_missing_packages"
          /\ imports \in SubsetsUpTo(ImportNames, MaxImports)
          /\ find_spec \in [imports -> FindSpecForMissing]
          /\ pip_list \in PipListForMissing
          /\ code_files = <<>> /\ pip_install = NoProc
          /\ packages = <<>> /\ output_callback = FALSE /\ queried = None
       \/ /\ op = "install_packages"
          /\ packages \in SeqsUpTo({str.numpy, str.opencv_python}, MaxPackages)
          /\ output_callback \in BOOLEAN
          /\ pip_install \in PipInstallOutcomes
          /\ code_files = <<>> /\ imports = {}
          /\ find_spec = NoFinder /\ pip_list = NoProc /\ queried = None
       \/ /\ op = "is_standard_library"
          /\ queried \in ModuleNames
          /\ find_spec \in [{queried} -> FindSpecOutcomes]
          /\ code_files = <<>> /\ imports = {}
          /\ pip_list = NoProc /\ pip_install = NoProc
          /\ packages = <<>> /\ output_callback = FALSE
       \/ /\ op = "import_to_package_map.get"
          /\ queried \in ModuleNames
          /\ code_files = <<>> /\ imports = {}
          /\ find_spec = NoFinder /\ pip_list = NoProc /\ pip_install = NoProc
          /\ packages = <<>> /\ output_callback = FALSE

AnalyzeImports ==
    /\ op = "analyze_imports" /\ returned = "pending"
    /\ LET r == analyze_imports_loop(code_files, {}) IN
         /\ imports' = r.value
         /\ returned' = IF r.exc = NoExc THEN "returned" ELSE r.exc
    /\ UNCHANGED <<op, code_files, builtin_module_names, find_spec, pip_list,
                   pip_install, packages, output_callback, installed, missing,
                   success, sink, queried, stdlib, install_as, classified, process,
                   envVars, guiVars>>

GetInstalledPackages ==
    /\ op = "get_installed_packages" /\ returned = "pending"
    /\ LET r == get_installed_packages(pip_list) IN
         /\ installed' = r.value
         /\ returned' = IF r.exc = NoExc THEN "returned" ELSE r.exc
    /\ UNCHANGED <<op, code_files, imports, builtin_module_names, find_spec,
                   pip_list, pip_install, packages, output_callback, missing,
                   success, sink, queried, stdlib, install_as, classified, process,
                   envVars, guiVars>>

GetMissingPackages ==
    /\ op = "get_missing_packages" /\ returned = "pending"
    /\ installed' = get_installed_packages(pip_list).value
    /\ LET exc == get_missing_packages_exc(imports, builtin_module_names, find_spec) IN
         /\ missing' = IF exc = NoExc
                           THEN get_missing_packages(imports, builtin_module_names,
                                                     find_spec, pip_list)
                       ELSE <<>>
         /\ returned' = IF exc = NoExc THEN "returned" ELSE exc
    /\ UNCHANGED <<op, code_files, imports, builtin_module_names, find_spec,
                   pip_list, pip_install, packages, output_callback, success, sink,
                   queried, stdlib, install_as, classified, process, envVars, guiVars>>

InstallPackages ==
    /\ op = "install_packages" /\ returned = "pending"
    /\ LET r == install_packages(packages, output_callback, pip_install) IN
         /\ success' = r.value
         /\ sink' = r.sink
         /\ returned' = IF r.exc = NoExc THEN "returned" ELSE r.exc
    /\ UNCHANGED <<op, code_files, imports, builtin_module_names, find_spec,
                   pip_list, pip_install, packages, output_callback, installed,
                   missing, queried, stdlib, install_as, classified, process, envVars, guiVars>>

IsStandardLibrary ==
    /\ op = "is_standard_library" /\ returned = "pending"
    /\ LET r == is_standard_library_call(builtin_module_names, find_spec, queried) IN
         /\ stdlib' = r.value
         /\ returned' = IF r.exc = NoExc THEN "returned" ELSE r.exc
    /\ UNCHANGED <<op, code_files, imports, builtin_module_names, find_spec,
                   pip_list, pip_install, packages, output_callback, installed,
                   missing, success, sink, queried, install_as, classified, process,
                   envVars, guiVars>>

\* lines 224-230 for one import name: the name that would be installed
ImportToPackageMapGet ==
    /\ op = "import_to_package_map.get" /\ returned = "pending"
    /\ install_as' = install_name(queried)
    /\ returned' = "returned"
    /\ UNCHANGED <<op, code_files, imports, builtin_module_names, find_spec,
                   pip_list, pip_install, packages, output_callback, installed,
                   missing, success, sink, queried, stdlib, classified, process,
                   envVars, guiVars>>

LibNext ==
    \/ AnalyzeImports
    \/ GetInstalledPackages
    \/ GetMissingPackages
    \/ InstallPackages
    \/ IsStandardLibrary
    \/ ImportToPackageMapGet

LibSpec == LibInit /\ [][LibNext]_vars

(***************************************************************************)
(* Specification of install_packages, statement by statement, with the     *)
(* subprocess writing its output while the caller reads it                 *)
(***************************************************************************)
installFrame == <<op, code_files, imports, builtin_module_names, find_spec, pip_list,
                  pip_install, packages, output_callback, installed, missing,
                  queried, stdlib, install_as, classified, envVars, guiVars>>

InstallInit ==
    /\ EnvIdle /\ GuiIdle
    /\ op = "install_packages"
    /\ packages \in SeqsUpTo({str.numpy, str.opencv_python}, MaxPackages)
    /\ output_callback \in BOOLEAN
    /\ pip_install \in PipInstallOutcomes
    /\ code_files = <<>> /\ imports = {}
    /\ builtin_module_names = HostBuiltins
    /\ find_spec = NoFinder /\ pip_list = NoProc
    /\ returned = "pending"
    /\ installed = EmptyDict /\ missing = <<>>
    /\ success = FALSE /\ sink = <<>>
    /\ queried = None /\ stdlib = FALSE /\ install_as = None /\ classified = << >>
    /\ process = [NoProcess EXCEPT !.pc = "call"]

\* lines 236-237 and the choice of line 242
InstallEnter ==
    /\ process.pc = "call"
    /\ IF not_packages(packages)
           THEN /\ success' = TRUE
                /\ returned' = "returned"
                /\ process' = [process EXCEPT !.pc = "done"]
       ELSE /\ process' = [process EXCEPT !.pc = IF output_callback THEN "Popen" ELSE "run"]
            /\ UNCHANGED <<success, returned>>
    /\ UNCHANGED <<installFrame, sink>>

\* lines 244-252, subprocess.Popen: the interpreter is started, or OSError
\* leaves install_packages (the handler of line 266 is for another class)
InstallPopen ==
    /\ process.pc = "Popen"
    /\ IF ~pip_install.start
           THEN /\ returned' = IF except_catches(install_packages_caught, "FileNotFoundError")
                                   THEN "returned" ELSE "FileNotFoundError"
                /\ process' = [process EXCEPT !.pc = "done"]
       ELSE /\ process' = [process EXCEPT !.pc = "readline", !.running = TRUE,
                                          !.spawned = @ + 1]
            /\ UNCHANGED returned
    /\ UNCHANGED <<installFrame, success, sink>>

\* the subprocess writes its next line to the pipe
SubprocessWrite ==
    /\ process.running
    /\ process.written < Len(pip_install.stdout)
    /\ process' = [process EXCEPT !.written = @ + 1]
    /\ UNCHANGED <<installFrame, success, sink, returned>>

\* the subprocess exits, at any moment
SubprocessExit ==
    /\ process.running
    /\ process' = [process EXCEPT !.running = FALSE]
    /\ UNCHANGED <<installFrame, success, sink, returned>>

\* line 254, `for line in iter(process.stdout.readline, '')`: the next line
\* is read when there is one, the loop ends at end of file, and the call
\* blocks otherwise
InstallReadline ==
    /\ process.pc = "readline"
    /\ \/ /\ ~readline_eof(process)
          /\ process.read < process.written
          /\ process' = [process EXCEPT !.read = @ + 1, !.pc = "output_callback",
                                        !.line = pip_install.stdout[process.read + 1]]
       \/ /\ readline_eof(process)
          /\ process' = [process EXCEPT !.pc = "wait"]
    /\ UNCHANGED <<installFrame, success, sink, returned>>

\* line 255, output_callback(line)
InstallOutputCallback ==
    /\ process.pc = "output_callback"
    /\ sink' = Append(sink, process.line)
    /\ process' = [process EXCEPT !.pc = "readline", !.line = None]
    /\ UNCHANGED <<installFrame, success, returned>>

\* lines 257-258, process.wait() and the return
InstallWait ==
    /\ process.pc = "wait"
    /\ ~process.running
    /\ success' = (pip_install.returncode = 0)
    /\ returned' = "returned"
    /\ process' = [process EXCEPT !.pc = "done"]
    /\ UNCHANGED <<installFrame, sink>>

\* lines 260-263, subprocess.run(..., check=True, capture_output=True): start
InstallRun ==
    /\ process.pc = "run"
    /\ IF ~pip_install.start
           THEN /\ returned' = IF except_catches(install_packages_caught, "FileNotFoundError")
                                   THEN "returned" ELSE "FileNotFoundError"
                /\ process' = [process EXCEPT !.pc = "done"]
       ELSE /\ process' = [process EXCEPT !.pc = "communicate", !.running = TRUE,
                                          !.spawned = @ + 1]
            /\ UNCHANGED returned
    /\ UNCHANGED <<installFrame, success, sink>>

\* subprocess.run collects the whole output, waits for the exit and checks
\* the status
InstallCommunicate ==
    /\ process.pc = "communicate"
    /\ ~process.running
    /\ IF pip_install.returncode # 0
           THEN /\ process' = [process EXCEPT !.pc = "except", !.read = process.written]
                /\ UNCHANGED <<success, returned>>
       ELSE /\ process' = [process EXCEPT !.pc = "done", !.read = process.written]
            /\ success' = TRUE
            /\ returned' = "returned"
    /\ UNCHANGED <<installFrame, sink>>

\* lines 266-269, `except subprocess.CalledProcessError`
InstallExcept ==
    /\ process.pc = "except"
    /\ sink' = IF output_callback THEN Append(sink, "Error") ELSE sink
    /\ success' = FALSE
    /\ returned' = "returned"
    /\ process' = [process EXCEPT !.pc = "done"]
    /\ UNCHANGED installFrame

InstallNext ==
    \/ InstallEnter
    \/ InstallPopen
    \/ SubprocessWrite
    \/ SubprocessExit
    \/ InstallReadline
    \/ InstallOutputCallback
    \/ InstallWait
    \/ InstallRun
    \/ InstallCommunicate
    \/ InstallExcept

InstallSpec == InstallInit /\ [][InstallNext]_vars

(***************************************************************************)
(* Specification of a DependencyManager shared by concurrent callers       *)
(***************************************************************************)
Callers == {1, 2}

ProjectDir == <<"proj">>

VenvNames == {"venv", "env", ".venv", ".env", "myenv"}

\* the names callers ask create_venv for
CreateNames == {"venv", "myenv"}

\* what may sit at <project>/<name> before the program starts
EntryKinds == {"file", "dir", "posix_venv", "nt_venv"}

EntryFiles(dir, kind) ==
    IF kind = "file" THEN {<<dir, "file">>}
    ELSE IF kind = "dir" THEN {<<dir, "dir">>}
    ELSE IF kind = "posix_venv"
        THEN {<<dir, "dir">>, <<os_path_join(dir, <<"bin">>), "dir">>,
              <<os_path_join(dir, <<"bin", "python">>), "file">>}
    ELSE {<<dir, "dir">>, <<os_path_join(dir, <<"Scripts">>), "dir">>,
          <<os_path_join(dir, <<"Scripts", "python.exe">>), "file">>}

\* the filesystem holding the given entries: a set of <<path, kind>> pairs
MakeFs(pairs) ==
    [q \in {pr[1] : pr \in pairs} |-> (CHOOSE pr \in pairs : pr[1] = q)[2]]

InitialFilesystems(projects) ==
    {MakeFs({<<proj, "dir">> : proj \in projects}
            \cup UNION {EntryFiles(os_path_join(e[1], <<e[2]>>), layout[e]) : e \in entries}) :
        entries \in SubsetsUpTo(projects \X VenvNames, MaxEntries),
        layout \in [projects \X VenvNames -> EntryKinds]}

EnvInit ==
    /\ op = "none" /\ LibIdle /\ GuiIdle
    /\ os_name \in {"nt", "posix"}
    /\ fs \in InitialFilesystems({ProjectDir})
    /\ \E folder_path \in {None, ProjectDir} :
           heap = <<DependencyManager(os_name, fs, folder_path)>>
    /\ workers = [w \in Callers |-> Idle]
    /\ calls = 0

DetectVenv == \E w \in Callers : DetectVenvCall(w, 1) /\ UNCHANGED <<libVars, guiVars>>
CreateVenv ==
    \E w \in Callers, n \in CreateNames : CreateVenvCall(w, 1, n) /\ UNCHANGED <<libVars, guiVars>>
CreateVenvRun == \E w \in Callers : CreateVenvStep(w) /\ UNCHANGED <<libVars, guiVars>>

EnvNext == DetectVenv \/ CreateVenv \/ CreateVenvRun

EnvSpec == EnvInit /\ [][EnvNext]_vars

(***************************************************************************)
(* The application: class PyGUIde                                           *)
(* Thread 0 is the interface thread (the Tk main loop); worker threads are  *)
(* numbered from 1.  The editor, the file explorer, the output pane (and    *)
(* the callbacks that only write to it), message boxes and the 5-second     *)
(* reset of the status bar are not modelled.                                *)
(***************************************************************************)
InterfaceThread == 0

Invocation(cmd, thread) == [cmd |-> cmd, thread |-> thread]

\* a callback scheduled with root.after(0, ...).  frame is the worker thread
\* whose `except Exception as e` clause made the lambda when the lambda reads
\* e, and 0 otherwise: e is unbound again when that clause is left
After(fn, text, name) == [fn |-> fn, text |-> text, name |-> name, frame |-> 0]

\* the callback reads a variable that is not bound any more: NameError,
\* reported by Tk on stderr
NameError(cb) == cb.frame # 0 /\ workers[cb.frame].pc # "except Exception"

Row(name, row_status, button) == [name |-> name, status |-> row_status, button |-> button]

OtherDir == <<"other">>

PlotsDir == <<"plots">>

\* get_project_python_files: the sources of each project, virtual
\* environment directories excluded; without a project nothing is analysed
\* (the editor's current file is not modelled)
get_project_python_files(project) ==
    IF project = ProjectDir
        THEN <<SourceFile(TRUE, TRUE, NoExc,
                          <<AstNode("Import", <<str.cv2>>, None, 0),
                            AstNode("Import", <<str.os, str.numpy>>, None, 0)>>)>>
    ELSE IF project = PlotsDir
        THEN <<SourceFile(TRUE, TRUE, NoExc,
                          <<AstNode("Import", <<str.matplotlib>>, None, 0),
                            AstNode("ImportFrom", <<str.Axes3D>>,
                                    str.mpl_toolkits_mplot3d, 0)>>)>>
    ELSE <<>>

\* the host interpreter's view of the modules the projects name
HostFinder ==
    [n \in {str.os, str.pip} |->
        IF n = str.os
            THEN [raises |-> NoExc, found |-> TRUE, origin |-> str.lib_dir \o str.mod_py]
        ELSE [raises |-> NoExc, found |-> TRUE,
              origin |-> str.lib_dir \o str.site_packages \o str.mod_py]]

\* the host interpreter's view of the modules, given what is installed
\* under it: a distribution puts a package of its own name in site-packages,
\* and matplotlib also the namespace package mpl_toolkits (a directory
\* without __init__.py, for which find_spec gives a spec without origin)
HostFinderWith(site) ==
    LET dists == site[sys_executable] \ {str.pip}
        namespaces == IF str.matplotlib \in dists THEN {str.mpl_toolkits} ELSE {} IN
    [n \in DOMAIN HostFinder \cup dists \cup namespaces |->
        IF n \in DOMAIN HostFinder THEN HostFinder[n]
        ELSE IF n \in dists
            THEN [raises |-> NoExc, found |-> TRUE,
                  origin |-> str.lib_dir \o str.site_packages \o str.mod_py]
        ELSE [raises |-> NoExc, found |-> TRUE, origin |-> None]]

\* `python -m pip list --format=json` under interpreter exe
PipListProc(site, exe) ==
    IF exe \notin DOMAIN site THEN Proc(FALSE, 0, JsonList(<<>>))
    ELSE LET names == sorted(site[exe]) IN
         Proc(TRUE, 0, JsonList([i \in DOMAIN names |-> PkgRecord("record", names[i], "1.0")]))

\* the rows refresh_dependencies renders for the names of all_deps, in order
RECURSIVE render_rows(_, _, _, _, _)
render_rows(all_deps, builtins, finder, missing_packages, installed_packages) ==
    IF all_deps = <<>> THEN <<>>
    ELSE LET dep == Head(all_deps)
             rest == render_rows(Tail(all_deps), builtins, finder,
                                 missing_packages, installed_packages) IN
         IF is_standard_library(builtins, finder, dep) THEN rest
         ELSE IF dep \in Range(missing_packages)
             THEN <<Row(dep, "Missing", TRUE)>> \o rest
         ELSE <<Row(dep, dict_get(installed_packages, lower(dep), "Installed"), FALSE)>> \o rest

\* refresh_dependencies on the calling thread: the panel afterwards and
\* whether pip was run
refresh_dependencies(project, self, site, builtins, finder, button) ==
    LET python_files == get_project_python_files(project) IN
    IF python_files = <<>>
        THEN [deps_list |-> <<Row(None, "No Python files to analyze.", FALSE)>>,
              install_all_btn |-> button, pip |-> FALSE]
    ELSE LET imps == analyze_imports(python_files)
             proc == PipListProc(site, self.python_executable)
             missing_packages == get_missing_packages(imps, builtins, finder, proc)
             installed_packages == get_installed_packages(proc).value
             all_deps == sorted(imps \cup DOMAIN installed_packages) IN
         [deps_list |-> render_rows(all_deps, builtins, finder,
                                    missing_packages, installed_packages),
          install_all_btn |-> Len(missing_packages), pip |-> TRUE]

\* update_environment_indicator
update_environment_indicator(self) ==
    IF self.venv_path # None THEN "Venv" ELSE "Global Python"

\* the effect of a refresh run by the interface thread on the panel and the log
RefreshOnInterfaceThread(project, self) ==
    LET r == refresh_dependencies(project, self, site_packages, builtin_module_names,
                                  HostFinder, install_all_btn) IN
    /\ deps_list' = r.deps_list
    /\ install_all_btn' = r.install_all_btn
    /\ invocations' = IF r.pip THEN invocations \cup {Invocation("pip list", InterfaceThread)}
                      ELSE invocations

\* threading.Thread(target=..., daemon=True).start()
StartThread(method, venv_name, pkgs) ==
    /\ Len(workers) < MaxThreads
    /\ workers' = Append(workers, [Idle EXCEPT !.pc = "thread_start", !.method = method,
                                               !.venv_name = venv_name, !.packages = pkgs,
                                               !.active_exe =
                                                   heap[dependency_manager].python_executable])

\* open_folder, when the dialog returns a folder
\* variant: open_folder keeps the environment of the previous project
OpenFolder_keeps_environment(folder_path) ==
    /\ Len(heap) < MaxManagers
    /\ LET self == [heap[dependency_manager] EXCEPT !.project_path = folder_path] IN
         /\ project_path' = folder_path
         /\ heap' = Append(heap, self)
         /\ dependency_manager' = Len(heap) + 1
         /\ env_indicator' = update_environment_indicator(self)
         /\ RefreshOnInterfaceThread(folder_path, self)
    /\ status' = "Opened project"
    /\ UNCHANGED <<libVars, os_name, fs, workers, calls, after_queue, site_packages>>

OpenFolder(folder_path) ==
    /\ Len(heap) < MaxManagers
    /\ LET self == DependencyManager(os_name, fs, folder_path) IN
         /\ project_path' = folder_path
         /\ heap' = Append(heap, self)
         /\ dependency_manager' = Len(heap) + 1
         /\ env_indicator' = update_environment_indicator(self)
         /\ RefreshOnInterfaceThread(folder_path, self)
    /\ status' = "Opened project"
    /\ UNCHANGED <<libVars, os_name, fs, workers, calls, after_queue, site_packages>>

\* the Refresh button and menu entry
RefreshDependencies ==
    /\ RefreshOnInterfaceThread(project_path, heap[dependency_manager])
    /\ UNCHANGED <<libVars, envVars, project_path, dependency_manager, after_queue,
                   site_packages, status, env_indicator>>

\* PyGUIde.create_venv, when both guards pass and the dialog returns a name
CreateVenvClicked(venv_name) ==
    /\ project_path # None
    /\ heap[dependency_manager].venv_path = None
    /\ status' = "Creating virtual environment..."
    /\ StartThread("create_venv", venv_name, <<>>)
    /\ UNCHANGED <<libVars, os_name, fs, heap, calls, project_path, dependency_manager,
                   after_queue, invocations, site_packages, deps_list, install_all_btn,
                   env_indicator>>

\* create_venv_thread, line 896: self.dependency_manager is read and
\* create_venv entered
CreateVenvThreadStart(w) ==
    /\ workers[w].pc = "thread_start" /\ workers[w].method = "create_venv"
    /\ SetWorker(w, [workers[w] EXCEPT !.pc = "check", !.dm = dependency_manager])
    /\ UNCHANGED <<libVars, os_name, fs, heap, calls, guiVars>>

\* the interpreters venv.create has put in place get their own site-packages
NewSitePackages(files) ==
    [e \in DOMAIN site_packages \cup
           {venv_python_exe(os_name, workers[w].venv_path) :
                w \in {v \in DOMAIN workers :
                          venv_python_exe(os_name, workers[v].venv_path) \in DOMAIN files}} |->
        IF e \in DOMAIN site_packages THEN site_packages[e] ELSE {str.pip}]

\* create_venv_thread inside DependencyManager.create_venv
CreateVenvThreadRun(w) ==
    /\ workers[w].method = "create_venv"
    /\ CreateVenvStep(w)
    /\ invocations' =
           IF workers[w].pc = "mkdir" THEN invocations \cup {Invocation("venv.create", w)}
           ELSE invocations
    /\ site_packages' = NewSitePackages(fs')
    /\ UNCHANGED <<libVars, project_path, dependency_manager, after_queue, deps_list,
                   install_all_btn, status, env_indicator>>

\* create_venv_thread, lines 897-899: the outcome is handed to the interface
\* thread; the lambda of line 899 reads e when it is run
CreateVenvThreadNotify(w) ==
    /\ workers[w].method = "create_venv"
    /\ workers[w].pc \in {"returned", "raised"}
    /\ after_queue' = Append(after_queue,
           IF workers[w].pc = "returned"
               THEN After("on_venv_created", "", workers[w].venv_name)
           ELSE [After("on_venv_error", workers[w].exc, workers[w].venv_name)
                     EXCEPT !.frame = w])
    /\ SetWorker(w, [workers[w] EXCEPT
                        !.pc = IF @ = "returned" THEN "finished" ELSE "except Exception"])
    /\ UNCHANGED <<libVars, os_name, fs, heap, calls, project_path, dependency_manager,
                   invocations, site_packages, deps_list, install_all_btn, status,
                   env_indicator>>

\* the end of an `except Exception as e` clause: e is deleted
ThreadLeavesExcept(w) ==
    /\ workers[w].pc = "except Exception"
    /\ SetWorker(w, [workers[w] EXCEPT !.pc = "finished"])
    /\ UNCHANGED <<libVars, os_name, fs, heap, calls, guiVars>>

\* install_package, bound to the Install button of a Missing row
\* variant: the handler refuses while another install is in flight
InstallPackageClicked_serialized(package) ==
    /\ \E i \in DOMAIN deps_list : deps_list[i].button /\ deps_list[i].name = package
    /\ \A w \in DOMAIN workers :
           workers[w].method \in {"install_package", "install_missing_packages"}
               => workers[w].pc \in {"finished", "died"}
    /\ StartThread("install_package", "", <<package>>)
    /\ UNCHANGED <<libVars, os_name, fs, heap, calls, guiVars>>

InstallPackageClicked(package) ==
    /\ \E i \in DOMAIN deps_list : deps_list[i].button /\ deps_list[i].name = package
    /\ StartThread("install_package", "", <<package>>)
    /\ UNCHANGED <<libVars, os_name, fs, heap, calls, guiVars>>

\* install_missing_packages, up to the start of the thread
InstallMissingClicked(confirmed) ==
    /\ install_all_btn # 0
    /\ LET python_files == get_project_python_files(project_path)
           self == heap[dependency_manager]
           imps == analyze_imports(python_files)
           missing_packages ==
               get_missing_packages(imps, builtin_module_names, HostFinder,
                                    PipListProc(site_packages, self.python_executable)) IN
         IF python_files = <<>> THEN
             /\ confirmed
             /\ UNCHANGED <<workers, invocations>>
         ELSE
             /\ invocations' = invocations \cup {Invocation("pip list", InterfaceThread)}
             /\ IF missing_packages # <<>> /\ confirmed
                    THEN StartThread("install_missing_packages", "", missing_packages)
                ELSE UNCHANGED workers
    /\ UNCHANGED <<libVars, os_name, fs, heap, calls, project_path, dependency_manager,
                   after_queue, site_packages, deps_list, install_all_btn, status,
                   env_indicator>>

\* install_thread, lines 1007-1009 / 1050-1052: the banner is scheduled
\* variant: the install thread writes the status bar itself
InstallThreadStart_direct(w) ==
    /\ workers[w].pc = "thread_start"
    /\ workers[w].method \in {"install_package", "install_missing_packages"}
    /\ status' = "Installing"
    /\ SetWorker(w, [workers[w] EXCEPT !.pc = "install_call"])
    /\ UNCHANGED <<libVars, os_name, fs, heap, calls, project_path, dependency_manager,
                   invocations, site_packages, deps_list, install_all_btn, after_queue,
                   env_indicator>>

InstallThreadStart(w) ==
    /\ workers[w].pc = "thread_start"
    /\ workers[w].method \in {"install_package", "install_missing_packages"}
    /\ after_queue' = Append(after_queue, After("set_status", "Installing", ""))
    /\ SetWorker(w, [workers[w] EXCEPT !.pc = "install_call"])
    /\ UNCHANGED <<libVars, os_name, fs, heap, calls, project_path, dependency_manager,
                   invocations, site_packages, deps_list, install_all_btn, status,
                   env_indicator>>

\* install_thread enters install_packages: self.dependency_manager and its
\* python_executable are read, and pip is started with Popen (or cannot be)
InstallThreadCall(w, proc) ==
    /\ workers[w].pc = "install_call"
    /\ LET exe == heap[dependency_manager].python_executable
           body == install_packages_try(proc, TRUE) IN
         IF body.exc # NoExc /\ ~except_catches(install_packages_caught, body.exc)
             THEN /\ SetWorker(w, [workers[w] EXCEPT !.pc = "died", !.exc = body.exc,
                                                     !.dm = dependency_manager, !.exe = exe])
                  /\ UNCHANGED invocations
         ELSE /\ SetWorker(w, [workers[w] EXCEPT !.pc = "install_wait",
                                                 !.dm = dependency_manager, !.exe = exe,
                                                 !.returncode = proc.returncode])
              /\ invocations' = invocations \cup {Invocation("pip install", w)}
    /\ UNCHANGED <<libVars, os_name, fs, heap, calls, project_path, dependency_manager,
                   after_queue, site_packages, deps_list, install_all_btn, status,
                   env_indicator>>

\* variant: pip installs into the environment that is active when it ends
InstallThreadFinish_active(w) ==
    /\ workers[w].pc = "install_wait"
    /\ LET ok == workers[w].returncode = 0
           exe == heap[dependency_manager].python_executable IN
         /\ site_packages' =
                IF ok /\ exe \in DOMAIN site_packages
                    THEN [site_packages EXCEPT
                             ![exe] = @ \cup {lower(pkg) : pkg \in Range(workers[w].packages)}]
                ELSE site_packages
         /\ after_queue' = after_queue \o
                (IF ok THEN <<After("set_status", "installed successfully", ""),
                              After("refresh_dependencies", "", "")>>
                 ELSE <<After("set_status", "Failed to install", "")>>)
         /\ SetWorker(w, [workers[w] EXCEPT !.pc = "finished", !.ret = ok])
    /\ UNCHANGED <<libVars, os_name, fs, heap, calls, project_path, dependency_manager,
                   invocations, deps_list, install_all_btn, status, env_indicator>>

\* the readline loop has drained, process.wait() returns, install_packages
\* returns and the final report is scheduled
InstallThreadFinish(w) ==
    /\ workers[w].pc = "install_wait"
    /\ LET ok == workers[w].returncode = 0
           exe == workers[w].exe IN
         /\ site_packages' =
                IF ok /\ exe \in DOMAIN site_packages
                    THEN [site_packages EXCEPT
                             ![exe] = @ \cup {lower(pkg) : pkg \in Range(workers[w].packages)}]
                ELSE site_packages
         /\ after_queue' = after_queue \o
                (IF ok THEN <<After("set_status", "installed successfully", ""),
                              After("refresh_dependencies", "", "")>>
                 ELSE <<After("set_status", "Failed to install", "")>>)
         /\ SetWorker(w, [workers[w] EXCEPT !.pc = "finished", !.ret = ok])
    /\ UNCHANGED <<libVars, os_name, fs, heap, calls, project_path, dependency_manager,
                   invocations, deps_list, install_all_btn, status, env_indicator>>

\* the main loop runs the oldest scheduled callback
RunAfter ==
    /\ after_queue # <<>>
    /\ after_queue' = Tail(after_queue)
    /\ LET cb == Head(after_queue)
           self == heap[dependency_manager] IN
         \/ /\ cb.fn = "set_status"
            /\ status' = cb.text
            /\ UNCHANGED <<env_indicator, deps_list, install_all_btn, invocations>>
         \/ /\ cb.fn = "refresh_dependencies"
            /\ RefreshOnInterfaceThread(project_path, self)
            /\ UNCHANGED <<status, env_indicator>>
         \/ /\ cb.fn = "on_venv_created"
            /\ env_indicator' = update_environment_indicator(self)
            /\ RefreshOnInterfaceThread(project_path, self)
            /\ status' = "Virtual environment created successfully"
         \/ /\ cb.fn = "on_venv_error"
            /\ status' = IF NameError(cb) THEN status
                         ELSE "Failed to create virtual environment"
            /\ UNCHANGED <<env_indicator, deps_list, install_all_btn, invocations>>
    /\ UNCHANGED <<libVars, envVars, project_path, dependency_manager, site_packages>>

(***************************************************************************)
(* Specification of the application                                        *)
(***************************************************************************)
GuiVenvNames == {"venv", "myenv"}

GuiFilesystems ==
    {MakeFs({<<ProjectDir, "dir">>, <<OtherDir, "dir">>, <<sys_executable, "file">>}
            \cup entries) :
        entries \in {{}, EntryFiles(os_path_join(ProjectDir, <<"venv">>), "posix_venv"),
                     EntryFiles(os_path_join(OtherDir, <<".venv">>), "posix_venv")}}

\* pip install cannot be started, or runs and exits 0 or 1
GuiInstallOutcomes == {Proc(FALSE, 1, <<>>)} \cup {Proc(TRUE, rc, <<>>) : rc \in {0, 1}}

GuiInit ==
    /\ op = "none" /\ LibIdle
    /\ builtin_module_names = HostBuiltins
    /\ os_name = "posix"
    /\ fs \in GuiFilesystems
    /\ heap = <<DependencyManager(os_name, fs, None)>>
    /\ workers = <<>>
    /\ calls = 0
    /\ project_path = None
    /\ dependency_manager = 1
    /\ after_queue = <<>>
    /\ invocations = {}
    /\ site_packages =
           [e \in {sys_executable} \cup
                  ({venv_python_exe(os_name, os_path_join(proj, <<n>>)) :
                        proj \in {ProjectDir, OtherDir}, n \in VenvNames} \cap DOMAIN fs) |->
               {str.pip}]
    /\ deps_list = <<>>
    /\ install_all_btn = -1
    /\ status = "Ready"
    /\ env_indicator = "Global Python"

GuiNext ==
    \/ \E folder_path \in {ProjectDir, OtherDir} : OpenFolder(folder_path)
    \/ RefreshDependencies
    \/ \E venv_name \in GuiVenvNames : CreateVenvClicked(venv_name)
    \/ \E w \in DOMAIN workers : CreateVenvThreadStart(w)
    \/ \E w \in DOMAIN workers : CreateVenvThreadRun(w)
    \/ \E w \in DOMAIN workers : CreateVenvThreadNotify(w)
    \/ \E w \in DOMAIN workers : ThreadLeavesExcept(w)
    \/ \E package \in ImportNames : InstallPackageClicked(package)
    \/ \E confirmed \in BOOLEAN : InstallMissingClicked(confirmed)
    \/ \E w \in DOMAIN workers : InstallThreadStart(w)
    \/ \E w \in DOMAIN workers, proc \in GuiInstallOutcomes : InstallThreadCall(w, proc)
    \/ \E w \in DOMAIN workers : InstallThreadFinish(w)
    \/ RunAfter

GuiSpec == GuiInit /\ [][GuiNext]_vars

\* a step of some worker thread
GuiThreadStep ==
    \E w \in DOMAIN workers :
        \/ CreateVenvThreadStart(w)
        \/ CreateVenvThreadRun(w)
        \/ CreateVenvThreadNotify(w)
        \/ ThreadLeavesExcept(w)
        \/ InstallThreadStart(w)
        \/ \E proc \in GuiInstallOutcomes : InstallThreadCall(w, proc)
        \/ InstallThreadFinish(w)

\* the main loop keeps running the callbacks scheduled with root.after: weak
\* fairness of RunAfter, which can run exactly when the queue is not empty
MainLoopRuns == []<>(after_queue = <<>>) \/ []<><<RunAfter>>_vars

\* the application with threads that keep running while they can (pip
\* terminates) and a main loop that keeps running; nothing is assumed about
\* what the user does
GuiFairSpec == GuiSpec /\ WF_vars(GuiThreadStep) /\ MainLoopRuns


(***************************************************************************)
(* Specification of refresh_dependencies call by call.  The interface      *)
(* thread waits for `pip list` twice, inside get_missing_packages (line    *)
(* 962) and in get_installed_packages (line 963), and the install threads  *)
(* run meanwhile.  op is the call the refresh is in.                       *)
(***************************************************************************)
\* lines 946-961: the panel is cleared and the sources are analysed
RefreshBegins ==
    /\ op \in {"none", "rendered"}
    /\ LET python_files == get_project_python_files(project_path) IN
         /\ python_files # <<>>
         /\ imports' = analyze_imports(python_files)
    /\ op' = "get_missing_packages"
    /\ missing' = <<>>
    /\ installed' = EmptyDict
    /\ classified' = << >>
    /\ deps_list' = <<>>
    /\ UNCHANGED <<code_files, builtin_module_names, find_spec, pip_list, pip_install,
                   packages, output_callback, returned, success, sink, queried, stdlib,
                   install_as, process, envVars, project_path, dependency_manager,
                   after_queue, invocations, site_packages, install_all_btn, status,
                   env_indicator>>

\* line 962: get_missing_packages returns, having run `pip list` and
\* classified every import
GetMissingPackagesReturns ==
    /\ op = "get_missing_packages"
    /\ LET finder == HostFinderWith(site_packages)
           proc == PipListProc(site_packages, heap[dependency_manager].python_executable) IN
         /\ missing' = get_missing_packages(imports, builtin_module_names, finder, proc)
         /\ classified' =
                [n \in imports |-> {is_standard_library(builtin_module_names, finder, n)}]
    /\ op' = "get_installed_packages"
    /\ invocations' = invocations \cup {Invocation("pip list", InterfaceThread)}
    /\ UNCHANGED <<code_files, imports, builtin_module_names, find_spec, pip_list,
                   pip_install, packages, output_callback, returned, installed, success,
                   sink, queried, stdlib, install_as, process, envVars, project_path,
                   dependency_manager, after_queue, site_packages, deps_list,
                   install_all_btn, status, env_indicator>>

\* lines 963-999: get_installed_packages returns, having run `pip list`
\* again, and the rows and the button are rendered
RenderRows ==
    /\ op = "get_installed_packages"
    /\ LET finder == HostFinderWith(site_packages)
           proc == PipListProc(site_packages, heap[dependency_manager].python_executable)
           installed_packages == get_installed_packages(proc).value
           all_deps == sorted(imports \cup DOMAIN installed_packages) IN
         /\ installed' = installed_packages
         /\ classified' =
                [n \in DOMAIN classified \cup Range(all_deps) |->
                    (IF n \in DOMAIN classified THEN classified[n] ELSE {})
                    \cup (IF n \in Range(all_deps)
                              THEN {is_standard_library(builtin_module_names, finder, n)}
                          ELSE {})]
         /\ deps_list' = render_rows(all_deps, builtin_module_names, finder, missing,
                                     installed_packages)
    /\ install_all_btn' = Len(missing)
    /\ op' = "rendered"
    /\ UNCHANGED <<code_files, imports, builtin_module_names, find_spec, pip_list,
                   pip_install, packages, output_callback, returned, missing, success,
                   sink, queried, stdlib, install_as, process, envVars, project_path,
                   dependency_manager, after_queue, invocations, site_packages, status,
                   env_indicator>>

\* the application right after open_folder on a project, with or without a
\* virtual environment in it
RefreshInit ==
    /\ op = "none" /\ LibIdle
    /\ builtin_module_names = HostBuiltins
    /\ os_name = "posix"
    /\ fs \in {MakeFs({<<PlotsDir, "dir">>, <<sys_executable, "file">>} \cup entries) :
                  entries \in {{}, EntryFiles(os_path_join(PlotsDir, <<"venv">>),
                                              "posix_venv")}}
    /\ heap = <<DependencyManager(os_name, fs, PlotsDir)>>
    /\ workers = <<>>
    /\ calls = 0
    /\ project_path = PlotsDir
    /\ dependency_manager = 1
    /\ after_queue = <<>>
    /\ invocations = {Invocation("pip list", InterfaceThread)}
    /\ site_packages = [e \in {sys_executable, heap[1].python_executable} |-> {str.pip}]
    /\ LET r == refresh_dependencies(PlotsDir, heap[1], site_packages,
                                     HostBuiltins, HostFinder, -1) IN
         /\ deps_list = r.deps_list
         /\ install_all_btn = r.install_all_btn
    /\ status = "Opened project"
    /\ env_indicator = update_environment_indicator(heap[1])

RefreshNext ==
    \/ RefreshBegins
    \/ GetMissingPackagesReturns
    \/ RenderRows
    \/ \E package \in {str.matplotlib, str.mpl_toolkits} : InstallPackageClicked(package)
    \/ \E w \in DOMAIN workers : InstallThreadStart(w)
    \/ \E w \in DOMAIN workers, proc \in GuiInstallOutcomes : InstallThreadCall(w, proc)
    \/ \E w \in DOMAIN workers : InstallThreadFinish(w)

RefreshSpec == RefreshInit /\ [][RefreshNext]_vars

(***************************************************************************)
(* Specification of run_code and stop_execution.  The time a user program  *)
(* takes is not measured: while it runs, it may exit and the 30-second     *)
(* timeout of communicate() may expire, in either order.                   *)
(***************************************************************************)
UpdateOutputCallback(stderr, return_code) ==
    [fn |-> "update_output", text |-> stderr, name |-> "", frame |-> 0,
     return_code |-> return_code]

RunInit ==
    /\ op = "none" /\ LibIdle
    /\ os_name \in {"nt", "posix"}
    /\ fs = MakeFs({<<ProjectDir, "dir">>})
    /\ heap = <<DependencyManager(os_name, fs, None)>>
    /\ workers = <<>>
    /\ calls = 0
    /\ project_path = None
    /\ dependency_manager = 1
    /\ after_queue = <<>>
    /\ invocations = {}
    /\ site_packages = [e \in {sys_executable} |-> {str.pip}]
    /\ deps_list = <<>>
    /\ install_all_btn = -1
    /\ status = "Ready"
    /\ env_indicator = "Global Python"

\* run_code on the interface thread; code_is_blank is `not code.strip()`
RunCode(code_is_blank) ==
    /\ IF code_is_blank
           THEN /\ status' = "No code to run"
                /\ UNCHANGED workers
       ELSE /\ StartThread("run_code", "", <<>>)
            /\ status' = "Code running..."
    /\ UNCHANGED <<libVars, os_name, fs, heap, calls, project_path, dependency_manager,
                   after_queue, invocations, site_packages, deps_list, install_all_btn,
                   env_indicator>>

\* run_in_thread, lines 1174-1184: the interpreter is read off
\* self.dependency_manager and started with Popen; when it cannot be
\* started the `except Exception` handler schedules the report
RunThreadPopen(w, start) ==
    /\ workers[w].pc = "thread_start" /\ workers[w].method = "run_code"
    /\ LET exe == heap[dependency_manager].python_executable IN
         IF start
             THEN /\ SetWorker(w, [workers[w] EXCEPT !.pc = "communicate", !.exe = exe,
                                                     !.dm = dependency_manager,
                                                     !.child = "running"])
                  /\ invocations' = invocations \cup {Invocation("python", w)}
                  /\ UNCHANGED after_queue
         ELSE /\ SetWorker(w, [workers[w] EXCEPT !.pc = "except Exception", !.exe = exe,
                                                 !.dm = dependency_manager,
                                                 !.exc = "FileNotFoundError"])
              /\ after_queue' = Append(after_queue,
                     [UpdateOutputCallback("Error", -1) EXCEPT !.frame = w])
              /\ UNCHANGED invocations
    /\ UNCHANGED <<libVars, os_name, fs, heap, calls, project_path, dependency_manager,
                   site_packages, deps_list, install_all_btn, status, env_indicator>>

\* the user program exits by itself
UserProgramExits(w, return_code) ==
    /\ workers[w].child = "running"
    /\ SetWorker(w, [workers[w] EXCEPT !.child = "exited", !.returncode = return_code])
    /\ UNCHANGED <<libVars, os_name, fs, heap, calls, guiVars>>

\* lines 1186-1189: communicate() returns once the program has exited and the
\* result is handed to the interface thread
RunThreadCommunicate(w) ==
    /\ workers[w].pc = "communicate"
    /\ workers[w].child = "exited"
    /\ after_queue' = Append(after_queue,
                             UpdateOutputCallback(IF workers[w].returncode = 0 THEN ""
                                                  ELSE "Traceback",
                                                  workers[w].returncode))
    /\ SetWorker(w, [workers[w] EXCEPT !.pc = "finished"])
    /\ UNCHANGED <<libVars, os_name, fs, heap, calls, project_path, dependency_manager,
                   invocations, site_packages, deps_list, install_all_btn, status,
                   env_indicator>>

\* line 1186: communicate(timeout=30) raises TimeoutExpired while the program
\* is still running
RunThreadTimeout(w) ==
    /\ workers[w].pc = "communicate"
    /\ workers[w].child = "running"
    /\ SetWorker(w, [workers[w] EXCEPT !.pc = "except TimeoutExpired",
                                       !.exc = "TimeoutExpired"])
    /\ UNCHANGED <<libVars, os_name, fs, heap, calls, guiVars>>

\* lines 1191-1193: process.kill() and the timeout report
RunThreadKill(w) ==
    /\ workers[w].pc = "except TimeoutExpired"
    /\ SetWorker(w, [workers[w] EXCEPT
                        !.pc = "finished",
                        !.child = IF @ = "running" THEN "killed" ELSE @])
    /\ after_queue' = Append(after_queue, UpdateOutputCallback("timed out", -1))
    /\ UNCHANGED <<libVars, os_name, fs, heap, calls, project_path, dependency_manager,
                   invocations, site_packages, deps_list, install_all_btn, status,
                   env_indicator>>

\* stop_execution, lines 1237-1241
StopExecution ==
    /\ status' = "Execution stopped"
    /\ UNCHANGED <<libVars, envVars, project_path, dependency_manager, after_queue,
                   invocations, site_packages, deps_list, install_all_btn, env_indicator>>

\* the main loop runs the oldest scheduled callback: update_output
UpdateOutput ==
    /\ after_queue # <<>>
    /\ Head(after_queue).fn = "update_output"
    /\ after_queue' = Tail(after_queue)
    /\ status' = IF NameError(Head(after_queue)) THEN status
                 ELSE IF Head(after_queue).return_code = 0
                     THEN "Code executed successfully"
                 ELSE "Code execution failed"
    /\ UNCHANGED <<libVars, envVars, project_path, dependency_manager, invocations,
                   site_packages, deps_list, install_all_btn, env_indicator>>

RunNext ==
    \/ \E code_is_blank \in BOOLEAN : RunCode(code_is_blank)
    \/ \E w \in DOMAIN workers, start \in BOOLEAN : RunThreadPopen(w, start)
    \/ \E w \in DOMAIN workers, return_code \in {0, 1} : UserProgramExits(w, return_code)
    \/ \E w \in DOMAIN workers : RunThreadCommunicate(w)
    \/ \E w \in DOMAIN workers : RunThreadTimeout(w)
    \/ \E w \in DOMAIN workers : RunThreadKill(w)
    \/ \E w \in DOMAIN workers : ThreadLeavesExcept(w)
    \/ StopExecution
    \/ UpdateOutput

RunSpec == RunInit /\ [][RunNext]_vars

(***************************************************************************)
(* Specifications of the application with a project open.  ThreadsSpec:    *)
(* worker threads of the three kinds (environment creation, install, code  *)
(* execution) and the main loop that runs what they schedule.  SwitchSpec: *)
(* open_folder replaces the active environment while environment creation  *)
(* and installs are in flight.                                             *)
(***************************************************************************)
\* the application right after open_folder on ProjectDir; one of the two
\* projects has an environment
AppInit ==
    /\ op = "none" /\ LibIdle
    /\ builtin_module_names = HostBuiltins
    /\ os_name = "posix"
    /\ fs \in GuiFilesystems
    /\ \E proj \in {ProjectDir, OtherDir}, n \in VenvNames :
           venv_python_exe(os_name, os_path_join(proj, <<n>>)) \in DOMAIN fs
    /\ heap = <<DependencyManager(os_name, fs, ProjectDir)>>
    /\ workers = <<>>
    /\ calls = 0
    /\ project_path = ProjectDir
    /\ dependency_manager = 1
    /\ after_queue = <<>>
    /\ invocations = {Invocation("pip list", InterfaceThread)}
    /\ site_packages =
           [e \in {sys_executable} \cup
                  ({venv_python_exe(os_name, os_path_join(proj, <<n>>)) :
                        proj \in {ProjectDir, OtherDir}, n \in VenvNames} \cap DOMAIN fs) |->
               {str.pip}]
    /\ LET r == refresh_dependencies(ProjectDir, heap[1], site_packages,
                                     HostBuiltins, HostFinder, -1) IN
         /\ deps_list = r.deps_list
         /\ install_all_btn = r.install_all_btn
    /\ status = "Opened project"
    /\ env_indicator = update_environment_indicator(heap[1])

ThreadsNext ==
    \/ \E venv_name \in GuiVenvNames :
           Len(workers) < MaxWorkers /\ CreateVenvClicked(venv_name)
    \/ \E package \in ImportNames :
           Len(workers) < MaxWorkers /\ InstallPackageClicked(package)
    \/ Len(workers) < MaxWorkers /\ RunCode(FALSE)
    \/ \E w \in DOMAIN workers : CreateVenvThreadStart(w)
    \/ \E w \in DOMAIN workers : CreateVenvThreadRun(w)
    \/ \E w \in DOMAIN workers : CreateVenvThreadNotify(w)
    \/ \E w \in DOMAIN workers : ThreadLeavesExcept(w)
    \/ \E w \in DOMAIN workers : InstallThreadStart(w)
    \/ \E w \in DOMAIN workers, proc \in GuiInstallOutcomes : InstallThreadCall(w, proc)
    \/ \E w \in DOMAIN workers : InstallThreadFinish(w)
    \/ \E w \in DOMAIN workers, start \in BOOLEAN : RunThreadPopen(w, start)
    \/ \E w \in DOMAIN workers, return_code \in {0, 1} : UserProgramExits(w, return_code)
    \/ \E w \in DOMAIN workers : RunThreadCommunicate(w)
    \/ \E w \in DOMAIN workers : RunThreadTimeout(w)
    \/ \E w \in DOMAIN workers : RunThreadKill(w)
    \/ StopExecution
    \/ RunAfter
    \/ UpdateOutput

ThreadsSpec == AppInit /\ [][ThreadsNext]_vars

SwitchNext ==
    \/ \E folder_path \in {ProjectDir, OtherDir} : OpenFolder(folder_path)
    \/ \E venv_name \in GuiVenvNames :
           Len(workers) < MaxWorkers /\ CreateVenvClicked(venv_name)
    \/ \E package \in ImportNames :
           Len(workers) < MaxWorkers /\ InstallPackageClicked(package)
    \/ \E w \in DOMAIN workers : CreateVenvThreadStart(w)
    \/ \E w \in DOMAIN workers : CreateVenvThreadRun(w)
    \/ \E w \in DOMAIN workers : CreateVenvThreadNotify(w)
    \/ \E w \in DOMAIN workers : ThreadLeavesExcept(w)
    \/ \E w \in DOMAIN workers : InstallThreadStart(w)
    \/ \E w \in DOMAIN workers, proc \in GuiInstallOutcomes : InstallThreadCall(w, proc)
    \/ \E w \in DOMAIN workers : InstallThreadFinish(w)
    \/ RunAfter

SwitchSpec == AppInit /\ [][SwitchNext]_vars

(***************************************************************************)
(* Properties of single DependencyManager calls (LibSpec)                  *)
(***************************************************************************)
Done(method) == op = method /\ returned # "pending"

Returned(method) == op = method /\ returned = "returned"

\* the alias table applied to an import name, keyed by the lowercased name
AliasResolved(imp) ==
    IF lower(imp) \in DOMAIN import_to_package_map
        THEN import_to_package_map[lower(imp)]
    ELSE imp

StdLib(imp) == is_standard_library(builtin_module_names, find_spec, imp)

StrictlyAscending(seq) == \A i \in 1..(Len(seq) - 1) : str_lt(seq[i], seq[i + 1])

\* C1: get_missing_packages returns, sorted ascending and without duplicates,
\* exactly the alias-resolved names of the imports that are not standard
\* library and whose alias-resolved name, lowercased, is not installed.
C1_MissingPackagesContract ==
    Returned("get_missing_packages") =>
        /\ StrictlyAscending(missing)
        /\ Range(missing) =
               {AliasResolved(imp) :
                   imp \in {i \in imports :
                               /\ ~StdLib(i)
                               /\ lower(AliasResolved(i)) \notin DOMAIN installed}}

C1_Witness ==
    /\ Done("get_missing_packages")
    /\ imports = {str.cv2, str.Numpy}
    /\ missing = <<str.Numpy, str.opencv_python>>

\* C2 as stated: every import whose lowercased name is an alias key and whose
\* mapped package is not installed is reported under the mapped name, and the
\* raw import name is not reported.
C2_AliasKeyAlwaysReported ==
    Returned("get_missing_packages") =>
        \A imp \in imports :
            (/\ lower(imp) \in DOMAIN import_to_package_map
             /\ import_to_package_map[lower(imp)] \notin DOMAIN installed)
            => /\ import_to_package_map[lower(imp)] \in Range(missing)
               /\ imp \notin Range(missing)

\* C2 amended: the same, for the imports that are not classified standard
\* library (a name classified standard library is skipped before the alias
\* table is consulted).
C2_AliasKeyReportedUnlessStdLib ==
    Returned("get_missing_packages") =>
        \A imp \in imports :
            (/\ lower(imp) \in DOMAIN import_to_package_map
             /\ import_to_package_map[lower(imp)] \notin DOMAIN installed
             /\ ~StdLib(imp))
            => /\ import_to_package_map[lower(imp)] \in Range(missing)
               /\ imp \notin Range(missing)

C2_Witness ==
    /\ Done("get_missing_packages")
    /\ str.PIL \in imports
    /\ ~StdLib(str.PIL)
    /\ str.pillow \notin DOMAIN installed
    /\ str.pillow \in Range(missing)
    /\ str.PIL \notin Range(missing)

\* pip list succeeded and printed a list of well-formed name/version records
PipListWellFormed ==
    /\ pip_list.start
    /\ pip_list.returncode = 0
    /\ pip_list.stdout.json = "list"
    /\ \A i \in DOMAIN pip_list.stdout.items : pip_list.stdout.items[i].shape = "record"

\* C3: get_installed_packages never raises; it returns the empty mapping when
\* pip cannot be started, exits non-zero or prints something that is not a
\* list of name/version records, and on success every key is the lowercased
\* name of a listed package.
C3_InstalledPackagesSoftFailure ==
    Done("get_installed_packages") =>
        /\ returned = "returned"
        /\ ~PipListWellFormed => installed = EmptyDict
        /\ PipListWellFormed =>
              DOMAIN installed =
                  {lower(pip_list.stdout.items[i].name) : i \in DOMAIN pip_list.stdout.items}
        /\ \A k \in DOMAIN installed : lower(k) = k

C3_Witness ==
    /\ Done("get_installed_packages")
    /\ pip_list.start /\ pip_list.returncode = 0
    /\ Len(pip_list.stdout.items) = 2
    /\ pip_list.stdout.items[1].shape = "record"
    /\ pip_list.stdout.items[2].shape = "no_version"
    /\ returned = "returned"
    /\ installed = EmptyDict

\* C4: install_packages never lets a fault escape: with a non-empty package
\* list every subprocess fault (cannot start, non-zero exit) yields False, and
\* True is returned only when the process exited with status zero.
C4_InstallNeverRaises ==
    Done("install_packages") =>
        /\ returned = "returned"
        /\ packages # <<>> =>
              (success <=> (pip_install.start /\ pip_install.returncode = 0))

\* the module paths named by the import statements of the parseable files
ModulePaths(files, relative_too) ==
    UNION {
        UNION {
            LET node == files[f].tree[n] IN
            IF node.type = "Import" THEN Range(node.names)
            ELSE IF /\ node.type = "ImportFrom"
                    /\ node.module # None
                    /\ (relative_too \/ node.level = 0)
                THEN {node.module}
            ELSE {}
            : n \in DOMAIN files[f].tree}
        : f \in {g \in DOMAIN files : files[g].readable /\ files[g].parses}}

\* x is the first dot-separated component of path
FirstComponentOf(x, path) ==
    /\ 46 \notin Range(x)
    /\ \/ x = path
       \/ /\ Len(path) > Len(x)
          /\ SubSeq(path, 1, Len(x)) = x
          /\ path[Len(x) + 1] = 46

\* C9: the result of analyze_imports is exactly the set of first
\* dot-separated components of the imported module paths: `import a.b.c` and
\* `from a.b import c` contribute a, never a.b and never c.
C9_OnlyTopLevelNames ==
    Done("analyze_imports") =>
        /\ \A x \in imports :
              \E path \in ModulePaths(code_files, TRUE) : FirstComponentOf(x, path)
        /\ \A path \in ModulePaths(code_files, TRUE) :
              \E x \in imports : FirstComponentOf(x, path)

C9_Witness ==
    /\ Done("analyze_imports")
    /\ Len(code_files) = 1
    /\ code_files[1].tree = <<AstNode("ImportFrom", <<str.c>>, str.a_b, 0)>>
    /\ imports = {str.a}

\* C10: a from-import with relative level greater than zero contributes no
\* name: every name of the result comes from an `import` or from a
\* from-import of level zero.
C10_RelativeImportsIgnored ==
    Done("analyze_imports") =>
        \A x \in imports :
            \E path \in ModulePaths(code_files, FALSE) : FirstComponentOf(x, path)

\* the files of the list that can be opened, read and parsed
Parseable(file) == file.readable /\ file.parses

\* C11: a file that cannot be read or parsed contributes nothing and does not
\* stop the pass: analyze_imports raises nothing, and its result is the union
\* of the names of the parseable files, which is also its result on the list
\* with the failing files taken out, wherever they sat.
C11_FailingFilesSkipped ==
    Done("analyze_imports") =>
        /\ returned = "returned"
        /\ imports =
               UNION {UNION {node_imports(code_files[f].tree[n]) :
                                n \in DOMAIN code_files[f].tree} :
                         f \in {g \in DOMAIN code_files : Parseable(code_files[g])}}
        /\ imports = analyze_imports(SelectSeq(code_files, Parseable))

C11_Witness ==
    /\ Done("analyze_imports")
    /\ returned = "returned"
    /\ Len(code_files) = 2
    /\ ~code_files[1].readable
    /\ code_files[2].tree = <<AstNode("Import", <<str.a_b_c>>, None, 0)>>
    /\ imports = {str.a}

(***************************************************************************)
(* Properties of is_standard_library and of the alias table                *)
(***************************************************************************)
\* name is a Python identifier made of ASCII letters, digits and underscores
IsIdentifier(name) ==
    /\ name # <<>>
    /\ IsAlpha(name[1]) \/ name[1] = 95
    /\ \A i \in 2..Len(name) : IsWord(name[i])

\* what the resolver of the host answers for name
Resolved(name) == IF name \in DOMAIN find_spec THEN find_spec[name] ELSE NotFound

\* the five-step policy of the classifier, in order
PolicySaysStdLib(name) ==
    IF ~IsIdentifier(name) THEN TRUE
    ELSE IF name \in builtin_module_names THEN TRUE
    ELSE IF Resolved(name).raises # NoExc \/ ~Resolved(name).found THEN FALSE
    ELSE IF Resolved(name).origin = None \/ Resolved(name).origin = str.built_in THEN TRUE
    ELSE /\ ~str_in(str.site_packages, Resolved(name).origin)
         /\ ~str_in(str.dist_packages, Resolved(name).origin)

ResolutionFails(name) ==
    /\ IsIdentifier(name)
    /\ name \notin builtin_module_names
    /\ Resolved(name).raises # NoExc \/ ~Resolved(name).found

\* C13: whenever the resolver raises, whatever the exception, or finds no
\* module, is_standard_library returns (nothing propagates) and returns false.
C13_ResolverFaultsNotPropagated ==
    (Done("is_standard_library") /\ ResolutionFails(queried)) =>
        /\ returned = "returned"
        /\ ~stdlib

\* C14: no import classified standard library appears in the result of
\* get_missing_packages, neither under its own name nor under the package
\* name the alias table gives it, even when that package is not installed.
C14_StdLibNeverMissing ==
    Returned("get_missing_packages") =>
        \A imp \in imports :
            PolicySaysStdLib(imp) =>
                /\ imp \notin Range(missing)
                /\ AliasResolved(imp) \notin Range(missing)

C14_Witness ==
    /\ Returned("get_missing_packages")
    /\ imports = {str.cv2, str.numpy}
    /\ PolicySaysStdLib(str.cv2)
    /\ str.opencv_python \notin DOMAIN installed
    /\ missing = <<str.numpy>>

\* C15: package names are compared without regard to letter case: an import
\* whose alias-resolved name, lowercased, is installed is not reported, and
\* no two entries of the result differ only in letter case.
C15_CaseInsensitiveNames ==
    Returned("get_missing_packages") =>
        /\ \A imp \in imports :
              lower(AliasResolved(imp)) \in DOMAIN installed =>
                  \A i \in DOMAIN missing : lower(missing[i]) # lower(AliasResolved(imp))
        /\ \A i, j \in DOMAIN missing :
              lower(missing[i]) = lower(missing[j]) => i = j

\* C18: the alias lookup is idempotent: looking up the name it yields gives
\* that name again, and a package name that is a value of the alias table is
\* returned unchanged.
C18_AliasLookupIdempotent ==
    Returned("import_to_package_map.get") =>
        /\ install_name(install_as) = install_as
        /\ queried \in {str.pillow, str.pyyaml, str.opencv_python, str.scikit_image,
                            str.scikit_learn, str.beautifulsoup4}
              => install_as = queried

C18_Witness ==
    /\ Returned("import_to_package_map.get")
    /\ queried = str.PIL
    /\ install_as = str.pillow
    /\ install_name(str.pillow) = str.pillow

(***************************************************************************)
(* Properties of install_packages, statement by statement (InstallSpec)    *)
(***************************************************************************)
\* C16: install_packages called with an empty list returns True, starts no
\* subprocess and never calls the sink.
C16_EmptyListIsNoOp ==
    (op = "install_packages" /\ packages = <<>>) =>
        /\ process.spawned = 0
        /\ ~process.running
        /\ sink = <<>>
        /\ returned # "pending" => (returned = "returned" /\ success)

C16_Witness ==
    /\ Returned("install_packages")
    /\ packages = <<>>
    /\ output_callback
    /\ ~pip_install.start
    /\ success
    /\ process.spawned = 0

\* the lines the subprocess has written so far
Produced == SubSeq(pip_install.stdout, 1, process.written)

\* C17: with a sink, the lines passed to it are at every moment the first
\* lines the subprocess wrote, in the order written and each once; a line
\* that has been read is passed to the sink before the next one is read; and
\* when install_packages returns, every line written has been passed.
C17_LinesStreamedInOrder ==
    (op = "install_packages" /\ output_callback) =>
        /\ Len(sink) <= process.written
        /\ sink = SubSeq(Produced, 1, Len(sink))
        /\ process.read - Len(sink) \in {0, 1}
        /\ process.read - Len(sink) = 1 <=> process.pc = "output_callback"
        /\ returned = "returned" => sink = Produced

C17_Witness ==
    /\ op = "install_packages" /\ output_callback
    /\ Len(pip_install.stdout) = 2
    /\ process.running
    /\ process.written = 1
    /\ sink = <<pip_install.stdout[1]>>

(***************************************************************************)
(* Properties of detect_venv and create_venv                               *)
(***************************************************************************)
\* worker w takes the precondition step of create_venv
ChecksPrecondition(w) == workers[w].pc = "check" /\ workers'[w].pc # "check"

\* C7: create_venv raises, before venv.create is reached, when the project
\* path is unset or when anything exists at project_path/name; the
\* filesystem and the active environment of every object are left as they
\* were, so a second create_venv('venv') after a successful one fails and the
\* first environment stays active.
C7_CreateFailsOnPrecondition ==
    [][\A w \in DOMAIN workers :
          ChecksPrecondition(w) =>
              LET self == heap[workers[w].dm]
                  target == self.project_path \o <<workers[w].venv_name>> IN
              (self.project_path = <<>> \/ target \in DOMAIN fs) =>
                  /\ workers'[w].pc = "raised"
                  /\ workers'[w].exc =
                         IF self.project_path = <<>> THEN "No project path set"
                         ELSE "already exists"
                  /\ fs' = fs
                  /\ heap' = heap]_vars

C7_Witness ==
    \E first, second \in DOMAIN workers :
        /\ first # second
        /\ workers[first].method = "create_venv" /\ workers[first].venv_name = "venv"
        /\ workers[first].pc = "returned" /\ workers[first].ret
        /\ workers[second].method = "create_venv" /\ workers[second].venv_name = "venv"
        /\ workers[second].pc = "raised" /\ workers[second].exc = "already exists"
        /\ heap[1].venv_path = <<"proj", "venv">>
        /\ heap[1].python_executable = venv_python_exe(os_name, <<"proj", "venv">>)

\* worker w makes a whole call of detect_venv
CallsDetectVenv(w) ==
    /\ calls' = calls + 1
    /\ workers'[w] # workers[w]
    /\ workers'[w].method = "detect_venv"

\* candidate directory `dir` is a directory holding the platform interpreter
Qualifies(dir) ==
    /\ dir \in DOMAIN fs /\ fs[dir] = "dir"
    /\ IF os_name = "nt" THEN (dir \o <<"Scripts", "python.exe">>) \in DOMAIN fs
       ELSE (dir \o <<"bin", "python">>) \in DOMAIN fs

\* C8: detect_venv activates the first of venv, env, .venv, .env that is a
\* directory holding the platform interpreter, skipping candidates that are
\* not; when none qualifies the object becomes global (no venv_path, host
\* interpreter) whatever it was before.
C8_DetectFirstQualifyingCandidate ==
    [][\A w \in DOMAIN workers :
          CallsDetectVenv(w) =>
              LET d == workers'[w].dm
                  order == <<"venv", "env", ".venv", ".env">>
                  project == heap[d].project_path
                  hits == {i \in 1..4 : project # <<>> /\ Qualifies(project \o <<order[i]>>)} IN
              IF hits # {}
                  THEN LET first == CHOOSE i \in hits : \A j \in hits : i <= j
                           dir == project \o <<order[first]>> IN
                       /\ workers'[w].ret
                       /\ heap'[d].venv_path = dir
                       /\ heap'[d].python_executable =
                              IF os_name = "nt" THEN dir \o <<"Scripts", "python.exe">>
                              ELSE dir \o <<"bin", "python">>
              ELSE /\ ~workers'[w].ret
                   /\ heap'[d].venv_path = <<>>
                   /\ heap'[d].python_executable = sys_executable]_vars

C8_Witness ==
    \E w \in DOMAIN workers :
        /\ workers[w].method = "detect_venv" /\ workers[w].pc = "returned" /\ workers[w].ret
        /\ <<"proj", "venv">> \in DOMAIN fs /\ fs[<<"proj", "venv">>] = "dir"
        /\ ~Qualifies(<<"proj", "venv">>)
        /\ heap[1].venv_path = <<"proj", "env">>
        /\ heap[1].python_executable = venv_python_exe(os_name, <<"proj", "env">>)

\* the two fields of DependencyManager object self agree
FieldsConsistent(self) ==
    /\ self.venv_path = None <=> self.python_executable = sys_executable
    /\ self.venv_path # None =>
           self.python_executable = venv_python_exe(os_name, self.venv_path)

\* C28: in every state a thread can observe, venv_path is absent exactly when
\* python_executable is the host interpreter, and otherwise python_executable
\* is the platform interpreter inside venv_path; across detect_venv and
\* create_venv, a create that fails part-way included.
C28_EnvironmentFieldsConsistent ==
    \A d \in DOMAIN heap : FieldsConsistent(heap[d])

\* worker w has made a call of create_venv that returned True
Created(w) ==
    /\ workers[w].method = "create_venv"
    /\ workers[w].pc = "returned" /\ workers[w].ret

\* C30: after create_venv(name) has succeeded on a project, detect_venv on
\* that project (as run when the project is reopened) activates the
\* environment that was created, whatever the name and whatever else is in
\* the project.
C30_CreateThenDetectRoundTrip ==
    \A w \in DOMAIN workers :
        Created(w) =>
            LET reopened == DependencyManager(os_name, fs, heap[workers[w].dm].project_path) IN
            /\ reopened.venv_path = workers[w].venv_path
            /\ reopened.python_executable = venv_python_exe(os_name, workers[w].venv_path)

(***************************************************************************)
(* Properties of the application (GuiSpec)                                 *)
(***************************************************************************)
\* C5: the interface thread never itself runs a package-manager command:
\* every pip list, pip install and venv.create is run by a worker thread.
C5_InterfaceThreadNeverRunsPip ==
    \A inv \in invocations : inv.thread # InterfaceThread

\* the create_venv requests that got past the precondition tests for `path`
Provisioning(path) ==
    {w \in DOMAIN workers :
        /\ workers[w].method = "create_venv"
        /\ workers[w].venv_path = path
        /\ workers[w].pc \in {"mkdir", "populate", "set_venv_path",
                              "set_python_executable", "returned", "finished"}}

\* C6: an environment at a given path is created at most once: of the
\* create_venv requests for one path, whatever their interleaving, at most
\* one gets to provisioning (the others raise "already exists").
C6_EnvironmentCreatedAtMostOnce ==
    \A w \in DOMAIN workers :
        workers[w].venv_path # <<>> =>
            Cardinality(Provisioning(workers[w].venv_path)) <= 1

\* the rows of the dependencies panel shown Missing with an Install button
MissingRows == {i \in DOMAIN deps_list : deps_list[i].status = "Missing" /\ deps_list[i].button}

\* C26: after a refresh of a project with sources, the rows shown Missing
\* with an Install button are as many as the N of "Install N Missing":
\* every import whose package is in the missing set, aliased imports such as
\* cv2 included, is shown Missing.
C26_StatusAgreesWithMissingSet ==
    (project_path = ProjectDir /\ install_all_btn >= 0) =>
        Cardinality(MissingRows) = install_all_btn

(***************************************************************************)
(* Properties of one refresh_dependencies run (RefreshSpec)                *)
(***************************************************************************)
\* C25: within one refresh_dependencies run, which classifies the names in
\* get_missing_packages and again when it renders the rows, no name is
\* classified both standard library and not standard library, also when an
\* install completes during the run.
C25_ClassifiedOneWayPerPass ==
    \A n \in DOMAIN classified : Cardinality(classified[n]) <= 1

\* C27: a finished refresh_dependencies run shows a missing set and an
\* installed mapping taken from one snapshot of the installed packages: no
\* package is in both, and the package of every import that is not
\* standard library is in one of them, also when an install completes
\* during the run.
C27_MissingAndInstalledFromOneSnapshot ==
    op = "rendered" =>
        /\ \A pkg \in Range(missing) : lower(pkg) \notin DOMAIN installed
        /\ \A imp \in imports :
               classified[imp] = {FALSE} =>
                   install_name(imp) \in Range(missing) \/ package_name(imp) \in DOMAIN installed

(***************************************************************************)
\* the user triggers stop_execution
Stops == status # "Execution stopped" /\ status' = "Execution stopped"

\* C19: a running user program is killed when the timeout expires and when
\* the user triggers stop_execution: once the timeout has been handled, and
\* right after a stop, no user program is running, and the status shown by a
\* stop is not replaced by the success report of the stopped run.
C19_StopAndTimeoutKill ==
    [][/\ \A w \in DOMAIN workers' :
              workers'[w].pc = "finished" => workers'[w].child # "running"
       /\ Stops => \A w \in DOMAIN workers' : workers'[w].child # "running"
       /\ status = "Execution stopped" => status' # "Code executed successfully"]_vars

(***************************************************************************)
(* Progress of the application (GuiFairSpec)                               *)
(***************************************************************************)
\* worker w is an install thread
InstallThread(w) ==
    /\ w \in DOMAIN workers
    /\ workers[w].method \in {"install_package", "install_missing_packages"}

\* install thread w has handed its final status, success or failure, to the
\* interface thread
FinalStatusScheduled(w) == InstallThread(w) /\ workers[w].pc = "finished"

\* C20: every install operation that is started ends with its final status,
\* the success or the failure message, handed to the interface thread, also
\* when pip cannot be started.
C20_InstallReportsFinalStatus ==
    \A w \in 1..MaxThreads : InstallThread(w) ~> FinalStatusScheduled(w)

\* the create_venv call of worker thread w raised / returned
CreateRaised(w) ==
    /\ w \in DOMAIN workers
    /\ workers[w].method = "create_venv" /\ workers[w].exc # NoExc

CreateReturned(w) ==
    /\ w \in DOMAIN workers
    /\ workers[w].method = "create_venv" /\ workers[w].ret

\* C29: every environment creation handed to a worker thread is eventually
\* reported on the interface thread: on_venv_error runs when create_venv
\* raised, on_venv_created when it returned; a failed creation is never left
\* unreported.
C29_CreationAlwaysNotified ==
    \A w \in 1..MaxThreads :
        /\ CreateRaised(w) ~> status = "Failed to create virtual environment"
        /\ CreateReturned(w) ~> status = "Virtual environment created successfully"

(***************************************************************************)
(* Properties of the worker threads and of project switches (ThreadsSpec,  *)
(* SwitchSpec, RefreshSpec)                                                *)
(***************************************************************************)
\* the widgets of the dependencies panel and the status bar
Widgets == <<deps_list, install_all_btn, status, env_indicator>>

\* a step taken by a worker thread: it moves that thread (or its child
\* process); the steps of the interface thread leave every thread that
\* exists where it is
WorkerThreadStep == \E w \in DOMAIN workers : workers'[w] # workers[w]

\* worker thread w ends its work in this step: its function returns, or
\* enters the handler that reports a failure
Completes(w) ==
    /\ workers[w].pc \notin {"finished", "except Exception", "died"}
    /\ workers'[w].pc \in {"finished", "except Exception"}

\* C21: a step of a worker thread (install, environment creation, code
\* execution) leaves every widget as it is and at most appends callbacks to
\* the queue of the interface thread; a thread that ends its work appends its
\* notification; every change of a widget is a step of the interface thread.
C21_WorkersOnlySchedule ==
    [][/\ WorkerThreadStep =>
            /\ Widgets' = Widgets
            /\ Len(after_queue') >= Len(after_queue)
            /\ SubSeq(after_queue', 1, Len(after_queue)) = after_queue
       /\ \A w \in DOMAIN workers : Completes(w) => Len(after_queue') > Len(after_queue)
       /\ Widgets' # Widgets => ~WorkerThreadStep]_vars

\* a worker thread has finished, the main loop has run everything it
\* scheduled, and the status bar shows its report
C21_Witness ==
    /\ after_queue = <<>>
    /\ \E w \in DOMAIN workers :
           /\ workers[w].pc = "finished"
           /\ \/ workers[w].method = "install_package" /\ status = "installed successfully"
              \/ workers[w].method = "create_venv"
                    /\ status = "Virtual environment created successfully"
              \/ workers[w].method = "run_code" /\ status = "Code executed successfully"

\* worker thread w is inside install_packages with its pip process running
InstallInFlight(w) ==
    /\ w \in DOMAIN workers
    /\ workers[w].method \in {"install_package", "install_missing_packages"}
    /\ workers[w].pc = "install_wait"

\* C22: installs are not serialized: as long as a row shows an Install
\* button and a thread can be started, the handler starts an install, whatever
\* the installs already in flight; so two pip processes can run at once under
\* the same interpreter.
C22_InstallsNotSerialized ==
    \A i \in DOMAIN deps_list :
        deps_list[i].button /\ Len(workers) < MaxThreads
            => ENABLED InstallPackageClicked(deps_list[i].name)

\* two installs are inside install_packages at once, under the same
\* interpreter, and no completion callback of either has been scheduled
C22_Witness ==
    \E w1, w2 \in DOMAIN workers :
        /\ w1 # w2
        /\ InstallInFlight(w1) /\ InstallInFlight(w2)
        /\ workers[w1].exe = workers[w2].exe
        /\ {Invocation("pip install", w1), Invocation("pip install", w2)} \subseteq invocations
        /\ \A k \in DOMAIN after_queue : after_queue[k].text = "Installing"

\* the interpreter of the active environment
ActiveExecutable == heap[dependency_manager].python_executable

\* C23 as stated: the executable an install uses is the one that was active
\* when the user triggered it, also if open_folder replaces the active
\* environment between the trigger and the start of the worker.
C23_InstallUsesEnvironmentOfTrigger ==
    \A w \in DOMAIN workers :
        InstallThread(w) /\ workers[w].pc \in {"install_wait", "finished"}
            => workers[w].exe = workers[w].active_exe

\* C23, amended: the executable an install uses is the one that is active
\* when its worker thread enters install_packages; it stays that one for the
\* rest of the operation, and pip changes the packages of no other
\* interpreter, also if open_folder replaces the active environment while the
\* subprocess runs.
C23_InstallUsesEnvironmentOfCall ==
    [][\A w \in DOMAIN workers :
          /\ workers[w].pc = "install_call" /\ workers'[w].pc # "install_call"
                => workers'[w].exe = ActiveExecutable
          /\ InstallInFlight(w) =>
                /\ workers'[w].exe = workers[w].exe
                /\ workers'[w].pc = "finished" =>
                      \A e \in DOMAIN site_packages :
                          /\ e # workers[w].exe => site_packages'[e] = site_packages[e]
                          /\ e = workers[w].exe /\ workers'[w].ret =>
                                site_packages'[e] =
                                    site_packages[e] \cup
                                        {lower(pkg) : pkg \in Range(workers[w].packages)}]_vars

\* an install has completed against the environment of the project that was
\* open when it entered install_packages, after open_folder replaced the
\* active environment
C23_Witness ==
    \E w \in DOMAIN workers :
        /\ InstallThread(w) /\ workers[w].pc = "finished" /\ workers[w].ret
        /\ workers[w].dm # dependency_manager
        /\ workers[w].exe # ActiveExecutable
        /\ workers[w].exe = workers[w].active_exe
        /\ {lower(pkg) : pkg \in Range(workers[w].packages)}
               \subseteq site_packages[workers[w].exe]
        /\ {lower(pkg) : pkg \in Range(workers[w].packages)}
               \cap site_packages[ActiveExecutable] = {}

\* C24: the one active environment belongs to the open project: the active
\* object is the one of the open project and its venv_path, when set, is a
\* directory of that project; right after open_folder on P it is the first
\* qualifying candidate of P, or global when P has none, whatever environment
\* (detected or created) was active before.
C24_ActiveEnvironmentOfOpenProject ==
    [][LET self == heap'[dependency_manager'] IN
       /\ self.project_path = project_path'
       /\ self.venv_path # None =>
              \E n \in VenvNames \cup GuiVenvNames :
                  self.venv_path = os_path_join(project_path', <<n>>)
       /\ dependency_manager' # dependency_manager =>
              LET order == <<"venv", "env", ".venv", ".env">>
                  hits == {i \in 1..4 : Qualifies(project_path' \o <<order[i]>>)} IN
              IF hits # {}
                  THEN LET first == CHOOSE i \in hits : \A j \in hits : i <= j
                           dir == project_path' \o <<order[first]>> IN
                       /\ self.venv_path = dir
                       /\ self.python_executable = dir \o <<"bin", "python">>
              ELSE /\ self.venv_path = None
                   /\ self.python_executable = sys_executable]_vars

\* an environment was created and active for the previous project, and
\* open_folder has made the global environment the active one
C24_Witness ==
    /\ dependency_manager > 1
    /\ heap[dependency_manager].venv_path = None
    /\ heap[dependency_manager].python_executable = sys_executable
    /\ \E w \in DOMAIN workers :
           /\ CreateReturned(w)
           /\ workers[w].dm = dependency_manager - 1
           /\ heap[workers[w].dm].venv_path # None

====
